---- MODULE Spec2Model ----
(***************************************************************************)
(* RDIP backend: the job pipeline (main.py), the job store (job_store.py), *)
(* the rolling-window rate limiter (rate_limiter.py) and the LLM           *)
(* orchestrator (ai_orchestrator.py), as a state machine.                  *)
(*                                                                         *)
(* Scheduling.  The program runs on one asyncio event loop.  A coroutine   *)
(* runs without interruption until it awaits something that really         *)
(* suspends (network I/O, asyncio.to_thread, asyncio.gather).  Awaiting a  *)
(* coroutine that never suspends does not give the loop a turn: this is    *)
(* the case of every RateLimitManager method (asyncio.Lock.acquire on a    *)
(* free lock returns at once, and no method awaits anything that suspends  *)
(* while holding the lock, so the lock is free whenever it is acquired)    *)
(* and of DualCacheManager.save/get.  The variable running names the task  *)
(* that holds the loop; a task gives it up only at SuspendPoints.  The     *)
(* clock (time.time()) advances independently of the scheduler.            *)
(*                                                                         *)
(* Specifications.  Spec: submissions, polls and pipelines, the cache      *)
(* reads and writes raising or not.  SpecNoFaults: the same when no cache  *)
(* operation raises.  SpecRL: analyze called on its own.  SpecStore: the   *)
(* job store called on its own.  SpecCache: the cache called on its own.   *)
(* SpecKey: _hash_url on strings.  SpecLimiter: the rate limiter called on *)
(* its own.  SpecParse: _parse_json_response on response texts.            *)
(* SpecStats: get_stats on histories at their capacity.  SpecCapacity:    *)
(* admission checks under limits up to and above the capacity.            *)
(* SpecTracker: the job store with its statistics and clear.  SpecJobs:   *)
(* two jobs side by side.  SpecRefresh: the same when no cache operation  *)
(* raises.  SpecLive: the pipeline under the event loop's scheduling.      *)
(***************************************************************************)
EXTENDS Integers, Sequences, FiniteSets, TLC

\* ------------------------------------------------------------ bounds
NumJobs == 1            \* job ids a run of Spec can hand out
NumCallers == 2         \* analyze invocations of SpecRL
MaxClock == 2           \* last clock value of Spec (seconds)
MaxSteps == 1           \* clock advances of SpecRL
JobTtl == 1             \* JobStore(ttl): settings.job_ttl_seconds of the run
GroqLimit == 1          \* settings.groq_rpm_limit of the run
GeminiLimit == 1        \* settings.gemini_rpm_limit of the run
MaxUrlLen == 4          \* longest URL string given to _hash_url in SpecKey
MaxCount == 2           \* largest access_count a cold row reaches

\* ------------------------------------------------- program constants
WindowSeconds == 60
GroqMaxLen == 500
GeminiMaxLen == 100
GroqMaxTokens == 120000
HotCacheTtl == 86400
ErrorMax == 200
UnexpectedMax == 180
\* _create_fallback_response: raw_text[:400] and raw_text[400:1000]
PostChars == 400
CommentsEnd == 1000

NONE == "none"
\* ret before any call.
NoCall == [op |-> NONE]
\* job[id] before submit_analysis has built the JobStatus of id
NoJob == [status |-> NONE, progress |-> 0, result |-> <<>>, error |-> <<>>]
\* ctx[t] of a task that holds no ThreadContext
NoContext == [token_count_llama |-> 0]
\* Optional[...] fields: None, or a value.
Null == <<>>
Some(v) == <<v>>
JobIds == 1..NumJobs
\* The ids of a run of SpecJobs, which hands out one more.
AllJobIds == 1..(NumJobs + 1)
Callers == 101..(100 + NumCallers)
Tasks == AllJobIds \cup Callers
Providers == {"groq", "gemini"}
\* A request URL is a sequence of pieces: the scheme and host of a short link,
\* a host on its own, a slash, a letter of either case, a space.
ShortLink == "https://redd.it"
\* The URL of a thread, as a request that passed validation carries it.
Urls == {<<ShortLink, "/", "h">>}
\* The URLs requests come with: a thread's, the same with a space before and
\* a slash after, a host without scheme or thread, a word, a blank.
RequestUrls == Urls \cup {<<" ", ShortLink, "/", "h", "/">>, <<"redd.it">>, <<"h">>, <<" ">>}
\* Clock advances of SpecRL: a window, and one second more.
ClockSteps == {WindowSeconds, WindowSeconds + 1}
\* Token estimates of a context: just below the ceiling, and at it.
TokenCounts == {GroqMaxTokens - 1, GroqMaxTokens}

VARIABLES
    now,             \* time.time(), in seconds
    running,         \* the task holding the event loop: {t}, or {}
    pc,              \* pc[t]: where task t stands
    groq_client,     \* AIOrchestrator._groq_client is not None
    gemini_configured,
    groq_history,    \* RateLimitManager._groq_history
    gemini_history,  \* RateLimitManager._gemini_history
    ctx,             \* ctx[t]: the ThreadContext analyze was given
    ares,            \* ares[t]: what analyze returned or raised
    jobs,            \* keys of JobStore._jobs (id -> the object job[id])
    created_at,      \* JobStore._created_at, a function on its keys
    job,             \* job[id]: the JobStatus object of that submission
    llm_raw,         \* llm_raw[t]: the pipeline's local
    hot,             \* InMemoryCache._data, a function on its keys
    cold,            \* the analyses table, a function on its keys
    url,             \* url[id]: the URL the pipeline of id was launched with
    usage,           \* usage[p]: the time of every record_*_usage call
    attempts,        \* attempts[p]: the time of every _invoke_* call
    log,             \* log[t]: what analyze did for t, in order
    ret              \* the last call made from outside and what it returned

vars == <<now, running, pc, groq_client, gemini_configured, groq_history,
          gemini_history, ctx, ares, jobs, created_at, job, llm_raw, hot,
          cold, url, usage, attempts, log, ret>>

limiterVars == <<groq_history, gemini_history, usage, attempts, log>>
storeVars == <<jobs, created_at, job, url>>
cacheVars == <<hot, cold>>
configVars == <<groq_client, gemini_configured>>

\* ------------------------------------------------------ rate limiter

\* The points at which a task has handed the loop back.  In the pipeline: the
\* task was created and has not run yet, it awaits the extractor, or it awaits
\* the enricher's gather.
PipelineSuspendPoints == {"created", "extracting", "enriching"}

\* In analyze: the provider call runs in a worker thread (asyncio.to_thread).
\* The awaits on the rate limiter are not among them.
AnalyzeSuspendPointsYielding == {"groq_record", "groq_call", "gemini_record", "gemini_call"}
AnalyzeSuspendPoints == {"groq_call", "gemini_call"}

SuspendPoints == PipelineSuspendPoints \cup AnalyzeSuspendPoints

AfterStep(t, p) == IF p \in SuspendPoints \cup {"done"} THEN {} ELSE {t}

\* As CleanHistory, dropping also a timestamp exactly one window old.
RECURSIVE CleanHistoryInclusive(_, _)
CleanHistoryInclusive(history, t) ==
    IF history # <<>> /\ Head(history) <= t - WindowSeconds
    THEN CleanHistoryInclusive(Tail(history), t)
    ELSE history

\* _clean_history: drop from the front every timestamp older than the window.
RECURSIVE CleanHistory(_, _)
CleanHistory(history, t) ==
    IF history # <<>> /\ Head(history) < t - WindowSeconds
    THEN CleanHistory(Tail(history), t)
    ELSE history

\* As DequeAppend, on a deque without maxlen.
DequeAppendUnbounded(history, maxlen, t) == Append(history, t)

\* deque(maxlen).append: at capacity the oldest entry is dropped.
DequeAppend(history, maxlen, t) ==
    IF Len(history) >= maxlen THEN Append(Tail(history), t) ELSE Append(history, t)

Limit(p) == IF p = "groq" THEN GroqLimit ELSE GeminiLimit

\* can_use_groq / can_use_gemini on a cleaned history.
CanUse(history, limit) == Len(history) < limit

\* An entry of log: analyze asked the limiter ("admit", with its answer),
\* recorded a usage ("record"), entered _invoke_* ("call"), or had the call
\* back ("done", with what the provider did and whether _invoke_* returned).
Event(op, p, ok, arg) == [op |-> op, p |-> p, ok |-> ok, arg |-> arg]

\* As Cut, nothing being cut.
Uncut(str, n) == str

\* str[:n]
Cut(str, n) == IF Len(str) > n THEN SubSeq(str, 1, n) ELSE str

Min(a, b) == IF a <= b THEN a ELSE b

\* ------------------------------------------------- provider responses

\* JSON values as json.loads builds them: a dict is a function on its keys.
JDict(f) == [type |-> "dict", items |-> f]
JList(s) == [type |-> "list", items |-> s]
JStr(s) == [type |-> "str", items |-> s]

\* dict.get(key, default)
DictGet(d, key, default) == IF key \in DOMAIN d.items THEN d.items[key] ELSE default

\* Scores are in hundredths: 75 is 0.75.
Sentiment(label, score) ==
    JDict([label |-> label, score |-> score, details |-> "d"])

FullObject(label, score, links) ==
    JDict([summary_post |-> "p", summary_comments |-> "c",
           sentiment_post |-> Sentiment(label, score),
           sentiment_comments |-> Sentiment("Neutro", 50),
           consensus |-> "k", key_controversies |-> JList(<<>>),
           useful_links |-> JList(links)])

\* The response texts a provider call returns in the model.
Texts == {"full", "links", "string_links", "empty_object", "bad_label", "bad_score",
          "sentiment_string", "list", "prose", "deep"}

\* What a provider call does: it raises (timeout, auth, quota, network), or
\* it returns one of the texts.
CallOutcomes == {"raise"} \cup Texts

\* json.loads on a response text.  Six texts are named after the document
\* they stand for (a complete JSON document that json.loads accepts) and
\* "deep" stands for '[' * 1100.  Every other text is read character by
\* character, in JSON written compactly: a key is one letter without quotes,
\* a scalar is one digit.
Whitespace == {" ", "\n"}
ControlChars == {"\n"}
Letters == {"a", "b", "c", "d"}
DigitChars == "0123456789"
\* The fence of a code block, three backquotes in the source, is written with
\* three tildes: a string of the model cannot hold a backquote.
Fence == "~~~"

At(s, i) == IF i >= 1 /\ i <= Len(s) THEN SubSeq(s, i, i) ELSE ""
StartsAt(s, i, lit) ==
    i >= 1 /\ i + Len(lit) - 1 <= Len(s) /\ SubSeq(s, i, i + Len(lit) - 1) = lit
IsDigit(c) == \E n \in 1..10 : At(DigitChars, n) = c
DigitValue(c) == (CHOOSE n \in 1..10 : At(DigitChars, n) = c) - 1

RECURSIVE SkipWs(_, _)
SkipWs(s, i) == IF At(s, i) \in Whitespace THEN SkipWs(s, i + 1) ELSE i

\* The decoder: the value that starts at position i and the position after it.
Bad == [ok |-> FALSE, value |-> NONE, next |-> 0]
Good(v, n) == [ok |-> TRUE, value |-> v, next |-> n]

RECURSIVE ParseValue(_, _)
RECURSIVE ParseMembers(_, _, _)
RECURSIVE ParseElements(_, _, _)
ParseValue(s, start) ==
    LET i == SkipWs(s, start)
        c == At(s, i)
        j == SkipWs(s, i + 1)
    IN  IF c # "" /\ IsDigit(c) THEN Good(DigitValue(c), i + 1)
        ELSE IF c = "{"
             THEN IF At(s, j) = "}" THEN Good(JDict(<<>>), j + 1)
                  ELSE ParseMembers(s, j, <<>>)
        ELSE IF c = "["
             THEN IF At(s, j) = "]" THEN Good(JList(<<>>), j + 1)
                  ELSE ParseElements(s, j, <<>>)
        ELSE Bad

\* The members of an object from a key on; a repeated key keeps its last value.
ParseMembers(s, start, acc) ==
    LET i == SkipWs(s, start)
        key == At(s, i)
        colon == SkipWs(s, i + 1)
        v == ParseValue(s, colon + 1)
        n == SkipWs(s, v.next)
        items == (key :> v.value) @@ acc
    IN  IF key \notin Letters \/ At(s, colon) # ":" THEN Bad
        ELSE IF ~v.ok THEN Bad
        ELSE IF At(s, n) = "}" THEN Good(JDict(items), n + 1)
        ELSE IF At(s, n) = "," THEN ParseMembers(s, n + 1, items)
        ELSE Bad

ParseElements(s, start, acc) ==
    LET v == ParseValue(s, start)
        n == SkipWs(s, v.next)
        items == Append(acc, v.value)
    IN  IF ~v.ok THEN Bad
        ELSE IF At(s, n) = "]" THEN Good(JList(items), n + 1)
        ELSE IF At(s, n) = "," THEN ParseElements(s, n + 1, items)
        ELSE Bad

\* A whole document: one value, whitespace around it, nothing after it.
Decode(s) ==
    LET v == ParseValue(s, 1) IN
    IF v.ok /\ SkipWs(s, v.next) = Len(s) + 1
    THEN [exc |-> NONE, value |-> v.value]
    ELSE [exc |-> "JSONDecodeError", value |-> NONE]

\* json.loads(text): the value, or the exception it raises.  "prose" is not
\* JSON (JSONDecodeError); "deep" is JSON nested deeper than the interpreter's
\* recursion limit ('[' * 1100), on which json.loads raises RecursionError,
\* which is not a JSONDecodeError.
JsonLoads(text) ==
    CASE text = "full" -> [exc |-> NONE, value |-> FullObject("Positivo", 75, <<>>)]
      [] text = "links" ->
            [exc |-> NONE,
             value |-> JDict([FullObject("Mixto", 40, <<JDict([url |-> "l1"])>>).items
                                 EXCEPT !.summary_post = "año"])]
      [] text = "string_links" ->
            [exc |-> NONE, value |-> FullObject("Mixto", 40, <<JStr("l1")>>)]
      [] text = "empty_object" -> [exc |-> NONE, value |-> JDict(<<>>)]
      [] text = "bad_label" -> [exc |-> NONE, value |-> FullObject("Positive", 75, <<>>)]
      [] text = "bad_score" -> [exc |-> NONE, value |-> FullObject("Positivo", 150, <<>>)]
      [] text = "sentiment_string" ->
            [exc |-> NONE, value |-> JDict([sentiment_post |-> JStr("Positivo")])]
      [] text = "list" -> [exc |-> NONE, value |-> JList(<<"x">>)]
      [] text = "prose" -> [exc |-> "JSONDecodeError", value |-> NONE]
      [] text = "deep" -> [exc |-> "RecursionError", value |-> NONE]
      [] OTHER -> Decode(text)

\* _create_fallback_response
ParseNotice == "Error al procesar respuesta del LLM"
ParseDetails == "Error de parseo: no se pudo extraer JSON válido"
NoConsensus == "No disponible debido a error de procesamiento"
FallbackSentiment == JDict([label |-> "Neutro", score |-> 50, details |-> ParseDetails])
CreateFallbackResponse(raw_text) ==
    JDict([summary_post |-> IF raw_text # "" THEN Cut(raw_text, PostChars) ELSE ParseNotice,
           summary_comments |->
               IF Len(raw_text) > PostChars
               THEN SubSeq(raw_text, PostChars + 1, Min(Len(raw_text), CommentsEnd))
               ELSE "",
           sentiment_post |-> FallbackSentiment,
           sentiment_comments |-> FallbackSentiment,
           consensus |-> NoConsensus, key_controversies |-> JList(<<>>),
           useful_links |-> JList(<<>>)])

\* re.search(r"<fence>(?:json)?\s*(\{.*?\})\s*<fence>"): group 1 of the leftmost match,
\* which ends at the first closing brace that is followed by a fence.
BlockOpen(s, i) == SkipWs(s, IF StartsAt(s, i + 3, "json") THEN i + 7 ELSE i + 3)
BlockEnds(s, i) ==
    {e \in (BlockOpen(s, i) + 1)..Len(s) :
        At(s, e) = "}" /\ StartsAt(s, SkipWs(s, e + 1), Fence)}
BlockAt(s, i) ==
    StartsAt(s, i, Fence) /\ At(s, BlockOpen(s, i)) = "{" /\ BlockEnds(s, i) # {}
CodeBlock(s) ==
    LET at == {i \in 1..Len(s) : BlockAt(s, i)} IN
    IF at = {} THEN Null
    ELSE LET i == CHOOSE x \in at : \A y \in at : x <= y
             e == CHOOSE x \in BlockEnds(s, i) : \A y \in BlockEnds(s, i) : x <= y
         IN  Some(SubSeq(s, BlockOpen(s, i), e))

\* r"\{[^{}]*(?:\{[^{}]*\}[^{}]*)*\}" from an opening brace: the position of
\* the brace that closes it, 0 when the text ends first or a brace opens
\* inside an inner object (the pattern knows one level of nesting).
RECURSIVE BraceEnd(_, _, _)
BraceEnd(s, i, depth) ==
    IF i > Len(s) THEN 0
    ELSE IF At(s, i) = "{" THEN IF depth = 0 THEN BraceEnd(s, i + 1, 1) ELSE 0
    ELSE IF At(s, i) = "}" THEN IF depth = 1 THEN BraceEnd(s, i + 1, 0) ELSE i
    ELSE BraceEnd(s, i + 1, depth)

\* re.search of that pattern: the leftmost match.
BraceMatch(s) ==
    LET at == {b \in 1..Len(s) : At(s, b) = "{" /\ BraceEnd(s, b + 1, 0) # 0} IN
    IF at = {} THEN Null
    ELSE LET b == CHOOSE x \in at : \A y \in at : x <= y
         IN  Some(SubSeq(s, b, BraceEnd(s, b + 1, 0)))

\* re.sub(r"[\x00-\x1F\x7F]", "", text)
RECURSIVE RemoveControl(_)
RemoveControl(s) ==
    IF Len(s) = 0 THEN ""
    ELSE IF Len(s) = 1 THEN IF s \in ControlChars THEN "" ELSE s
    ELSE LET half == Len(s) \div 2 IN
         RemoveControl(SubSeq(s, 1, half)) \o RemoveControl(SubSeq(s, half + 1, Len(s)))

\* str.strip() of a text
StripText(s) ==
    LET ink == {i \in 1..Len(s) : At(s, i) \notin Whitespace} IN
    IF ink = {} THEN ""
    ELSE SubSeq(s, CHOOSE x \in ink : \A y \in ink : x <= y,
                   CHOOSE x \in ink : \A y \in ink : x >= y)

\* re.search(r"\{.*\}"): from the first opening brace to the last closing one.
NestedMatch(s) ==
    LET opens == {i \in 1..Len(s) : At(s, i) = "{"}
        first == CHOOSE x \in opens : \A y \in opens : x <= y
        closes == {i \in (first + 1)..Len(s) : At(s, i) = "}"}
    IN  IF opens = {} \/ closes = {} THEN Null
        ELSE Some(SubSeq(s, first, CHOOSE x \in closes : \A y \in closes : x >= y))

\* _fix_json_issues: re.sub(r",\s*([}\]])", r"\1", text)
RECURSIVE FixJsonIssues(_)
FixJsonIssues(s) ==
    LET after == SkipWs(s, 2) IN
    IF s = "" THEN ""
    ELSE IF At(s, 1) = "," /\ At(s, after) \in {"}", "]"}
         THEN At(s, after) \o FixJsonIssues(SubSeq(s, after + 1, Len(s)))
         ELSE At(s, 1) \o FixJsonIssues(SubSeq(s, 2, Len(s)))

\* The steps of _parse_json_response in their order, and what step k hands to
\* json.loads: Null when its pattern does not match the text.
StepNames == <<"direct", "code_block", "brace", "cleaned", "nested">>
Candidate(text, k) ==
    CASE k = 1 -> Some(text)
      [] k = 2 -> CodeBlock(text)
      [] k = 3 -> BraceMatch(text)
      [] k = 4 -> Some(StripText(RemoveControl(text)))
      [] k = 5 -> LET nested_match == NestedMatch(text) IN
                  IF nested_match = Null THEN Null
                  ELSE Some(FixJsonIssues(nested_match[1]))

\* From step k on, after the steps in tried: a step that parses returns, a
\* JSONDecodeError is caught and the next step runs, any other exception of
\* json.loads leaves the function, and after the last step the fallback
\* structure is returned.
RECURSIVE Cascade(_, _, _)
Cascade(text, k, tried) ==
    IF k > Len(StepNames)
    THEN [exc |-> NONE, value |-> CreateFallbackResponse(text),
          steps |-> Append(tried, "fallback")]
    ELSE LET candidate == Candidate(text, k) IN
         IF candidate = Null THEN Cascade(text, k + 1, tried)
         ELSE LET loaded == JsonLoads(candidate[1])
                  ran == Append(tried, StepNames[k])
              IN  IF loaded.exc = NONE
                  THEN [exc |-> NONE, value |-> loaded.value, steps |-> ran]
                  ELSE IF loaded.exc = "JSONDecodeError" THEN Cascade(text, k + 1, ran)
                  ELSE [exc |-> loaded.exc, value |-> NONE, steps |-> ran]

\* _parse_json_response
ParseJsonResponse(text) == Cascade(text, 1, <<>>)

\* _invoke_groq / _invoke_gemini once the worker thread is back: the call's
\* exception, or the parse of its text.
InvokeResult(outcome) ==
    IF outcome = "raise" THEN [exc |-> "ProviderError", value |-> NONE]
    ELSE ParseJsonResponse(outcome)

\* ----------------------------------------------------------- analyze

AnalyzeReturn(v) == [ok |-> TRUE, value |-> v, msg |-> NONE]
AnalyzeRaise(m) == [ok |-> FALSE, value |-> NONE, msg |-> m]
\* ares[t] of a task that is not back from analyze
NoResult == [ok |-> FALSE, value |-> NONE, msg |-> NONE]
\* A text of n characters.
RECURSIVE Pad(_)
Pad(n) ==
    IF n = 0 THEN ""
    ELSE IF n % 2 = 0 THEN LET half == Pad(n \div 2) IN half \o half
    ELSE "x" \o Pad(n - 1)
\* str(e) of the exception of a provider call: a status line and a body,
\* longer than a job's error may be.
ProviderErrorText == "Error code: 429 - " \o Pad(ErrorMax)
AllFailed == "All LLMs failed. Last error: " \o ProviderErrorText
NoLLM == "No LLM available (rate limits exceeded or not configured)"

\* As AnalyzeCanUseGroq, the token estimate not being looked at.
AnalyzeCanUseGroqAnySize(t) ==
    /\ running = {t}
    /\ pc[t] = "analyze"
    /\ IF groq_client
       THEN LET cleaned == CleanHistory(groq_history, now)
                can_use == CanUse(cleaned, GroqLimit)
            IN /\ groq_history' = cleaned
               /\ log' = [log EXCEPT ![t] = Append(@, Event("admit", "groq", can_use, NONE))]
               /\ pc' = [pc EXCEPT ![t] = IF can_use THEN "groq_record" ELSE "gemini_check"]
       ELSE /\ pc' = [pc EXCEPT ![t] = "gemini_check"]
            /\ UNCHANGED <<groq_history, log>>
    /\ running' = AfterStep(t, pc'[t])
    /\ UNCHANGED <<now, configVars, ret, gemini_history, ctx, ares, storeVars, llm_raw,
                   cacheVars, usage, attempts>>

\* analyze, lines 228-232: the guard of the primary.  `and` short-circuits:
\* the limiter is asked (and its history cleaned) only for a configured
\* client and a context under the token ceiling.
AnalyzeCanUseGroq(t) ==
    /\ running = {t}
    /\ pc[t] = "analyze"
    /\ IF groq_client /\ ctx[t].token_count_llama < GroqMaxTokens
       THEN LET cleaned == CleanHistory(groq_history, now)
                can_use == CanUse(cleaned, GroqLimit)
            IN /\ groq_history' = cleaned
               /\ log' = [log EXCEPT ![t] = Append(@, Event("admit", "groq", can_use, NONE))]
               /\ pc' = [pc EXCEPT ![t] = IF can_use THEN "groq_record" ELSE "gemini_check"]
       ELSE /\ pc' = [pc EXCEPT ![t] = "gemini_check"]
            /\ UNCHANGED <<groq_history, log>>
    /\ running' = AfterStep(t, pc'[t])
    /\ UNCHANGED <<now, configVars, ret, gemini_history, ctx, ares, storeVars, llm_raw,
                   cacheVars, usage, attempts>>

\* As AnalyzeRecordGroq, with the record of usage forgotten.
AnalyzeInvokeGroqUnrecorded(t) ==
    /\ running \subseteq {t}
    /\ pc[t] = "groq_record"
    /\ attempts' = [attempts EXCEPT !["groq"] = Append(@, now)]
    /\ log' = [log EXCEPT ![t] = Append(@, Event("call", "groq", TRUE, NONE))]
    /\ pc' = [pc EXCEPT ![t] = "groq_call"]
    /\ running' = AfterStep(t, pc'[t])
    /\ UNCHANGED <<now, configVars, ret, groq_history, gemini_history, usage, ctx, ares,
                   storeVars, llm_raw, cacheVars>>

\* analyze, lines 235-238: record_groq_usage, then _invoke_groq up to its
\* asyncio.to_thread.
AnalyzeRecordGroq(t) ==
    /\ running \subseteq {t}
    /\ pc[t] = "groq_record"
    /\ groq_history' = DequeAppend(groq_history, GroqMaxLen, now)
    /\ usage' = [usage EXCEPT !["groq"] = Append(@, now)]
    /\ attempts' = [attempts EXCEPT !["groq"] = Append(@, now)]
    /\ log' = [log EXCEPT ![t] = @ \o <<Event("record", "groq", TRUE, NONE),
                                        Event("call", "groq", TRUE, NONE)>>]
    /\ pc' = [pc EXCEPT ![t] = "groq_call"]
    /\ running' = AfterStep(t, pc'[t])
    /\ UNCHANGED <<now, configVars, ret, gemini_history, ctx, ares, storeVars, llm_raw,
                   cacheVars>>

\* As AnalyzeGroqDone, with the primary's exception leaving analyze instead of
\* being swallowed for the fallback.
AnalyzeGroqDoneNoFallback(t, outcome) ==
    /\ running = {}
    /\ pc[t] = "groq_call"
    /\ LET r == InvokeResult(outcome) IN
       /\ log' = [log EXCEPT ![t] = Append(@, Event("done", "groq", r.exc = NONE, outcome))]
       /\ ares' = [ares EXCEPT ![t] = IF r.exc = NONE THEN AnalyzeReturn(r.value)
                                      ELSE AnalyzeRaise(AllFailed)]
    /\ pc' = [pc EXCEPT ![t] = "analyzed"]
    /\ running' = AfterStep(t, pc'[t])
    /\ UNCHANGED <<now, configVars, ret, groq_history, gemini_history, ctx, storeVars,
                   llm_raw, cacheVars, usage, attempts>>

\* analyze, lines 238-240: _invoke_groq returns the parsed response, or
\* raises and the exception is swallowed for the fallback.
AnalyzeGroqDone(t, outcome) ==
    /\ running = {}
    /\ pc[t] = "groq_call"
    /\ LET r == InvokeResult(outcome) IN
       /\ log' = [log EXCEPT ![t] = Append(@, Event("done", "groq", r.exc = NONE, outcome))]
       /\ IF r.exc = NONE
          THEN /\ ares' = [ares EXCEPT ![t] = AnalyzeReturn(r.value)]
               /\ pc' = [pc EXCEPT ![t] = "analyzed"]
          ELSE /\ pc' = [pc EXCEPT ![t] = "gemini_check"]
               /\ UNCHANGED ares
    /\ running' = AfterStep(t, pc'[t])
    /\ UNCHANGED <<now, configVars, ret, groq_history, gemini_history, ctx, storeVars,
                   llm_raw, cacheVars, usage, attempts>>

\* analyze, lines 242 and 251: the guard of the secondary, and the error when
\* it is not taken.
AnalyzeCanUseGemini(t) ==
    /\ running = {t}
    /\ pc[t] = "gemini_check"
    /\ IF gemini_configured
       THEN LET cleaned == CleanHistory(gemini_history, now)
                can_use == CanUse(cleaned, GeminiLimit)
            IN /\ gemini_history' = cleaned
               /\ log' = [log EXCEPT ![t] = Append(@, Event("admit", "gemini", can_use, NONE))]
               /\ IF can_use
                  THEN /\ pc' = [pc EXCEPT ![t] = "gemini_record"]
                       /\ UNCHANGED ares
                  ELSE /\ pc' = [pc EXCEPT ![t] = "analyzed"]
                       /\ ares' = [ares EXCEPT ![t] = AnalyzeRaise(NoLLM)]
       ELSE /\ pc' = [pc EXCEPT ![t] = "analyzed"]
            /\ ares' = [ares EXCEPT ![t] = AnalyzeRaise(NoLLM)]
            /\ UNCHANGED <<gemini_history, log>>
    /\ running' = AfterStep(t, pc'[t])
    /\ UNCHANGED <<now, configVars, ret, groq_history, ctx, storeVars, llm_raw,
                   cacheVars, usage, attempts>>

\* analyze, lines 243-246: record_gemini_usage, then _invoke_gemini up to its
\* asyncio.to_thread.
AnalyzeRecordGemini(t) ==
    /\ running \subseteq {t}
    /\ pc[t] = "gemini_record"
    /\ gemini_history' = DequeAppend(gemini_history, GeminiMaxLen, now)
    /\ usage' = [usage EXCEPT !["gemini"] = Append(@, now)]
    /\ attempts' = [attempts EXCEPT !["gemini"] = Append(@, now)]
    /\ log' = [log EXCEPT ![t] = @ \o <<Event("record", "gemini", TRUE, NONE),
                                        Event("call", "gemini", TRUE, NONE)>>]
    /\ pc' = [pc EXCEPT ![t] = "gemini_call"]
    /\ running' = AfterStep(t, pc'[t])
    /\ UNCHANGED <<now, configVars, ret, groq_history, ctx, ares, storeVars, llm_raw,
                   cacheVars>>

\* analyze, lines 246-249: _invoke_gemini returns the parsed response, or
\* raises and analyze raises "All LLMs failed".
AnalyzeGeminiDone(t, outcome) ==
    /\ running = {}
    /\ pc[t] = "gemini_call"
    /\ LET r == InvokeResult(outcome) IN
       /\ log' = [log EXCEPT ![t] = Append(@, Event("done", "gemini", r.exc = NONE, outcome))]
       /\ ares' = [ares EXCEPT ![t] = IF r.exc = NONE THEN AnalyzeReturn(r.value)
                                      ELSE AnalyzeRaise(AllFailed)]
    /\ pc' = [pc EXCEPT ![t] = "analyzed"]
    /\ running' = AfterStep(t, pc'[t])
    /\ UNCHANGED <<now, configVars, ret, groq_history, gemini_history, ctx, storeVars,
                   llm_raw, cacheVars, usage, attempts>>

Analyze(t) ==
    \/ AnalyzeCanUseGroq(t)
    \/ AnalyzeRecordGroq(t)
    \/ \E outcome \in CallOutcomes : AnalyzeGroqDone(t, outcome)
    \/ AnalyzeCanUseGemini(t)
    \/ AnalyzeRecordGemini(t)
    \/ \E outcome \in CallOutcomes : AnalyzeGeminiDone(t, outcome)

\* ------------------------------------------------- initial state, clock

Init ==
    /\ now = 0
    /\ running = {}
    /\ pc = [t \in Tasks |-> "idle"]
    /\ groq_client \in BOOLEAN
    /\ gemini_configured \in BOOLEAN
    /\ groq_history = <<>>
    /\ gemini_history = <<>>
    /\ ctx = [t \in Tasks |-> NoContext]
    /\ ares = [t \in Tasks |-> NoResult]
    /\ jobs = {}
    /\ created_at = <<>>
    /\ job = [id \in AllJobIds |-> NoJob]
    /\ llm_raw = [t \in Tasks |-> NONE]
    /\ hot = <<>>
    /\ cold = <<>>
    /\ url = [id \in AllJobIds |-> NONE]
    /\ usage = [p \in Providers |-> <<>>]
    /\ attempts = [p \in Providers |-> <<>>]
    /\ log = [t \in Tasks |-> <<>>]
    /\ ret = NoCall

\* time.time() moves on, whoever holds the loop.
Tick(d) ==
    /\ now' = now + d
    /\ UNCHANGED <<running, pc, configVars, ret, limiterVars, ctx, ares, storeVars,
                   llm_raw, cacheVars>>

\* --------------------------------------- analyze called on its own

\* A caller awaits ai_orchestrator.analyze(context) from a task of its own,
\* as the pipeline does, with a context of either token estimate.  Callers
\* start in the order of their ids.
CallAnalyze(t, tokens) ==
    /\ running = {}
    /\ pc[t] = "idle"
    /\ \A s \in Callers : s < t => pc[s] # "idle"
    /\ ctx' = [ctx EXCEPT ![t] = [token_count_llama |-> tokens]]
    /\ pc' = [pc EXCEPT ![t] = "analyze"]
    /\ running' = {t}
    /\ UNCHANGED <<now, configVars, ret, limiterVars, ares, storeVars, llm_raw, cacheVars>>

\* The caller has analyze's result or exception and ends; its frame is gone.
CallerDone(t) ==
    /\ running = {t}
    /\ pc[t] = "analyzed"
    /\ pc' = [pc EXCEPT ![t] = "done"]
    /\ running' = {}
    /\ ctx' = [ctx EXCEPT ![t] = NoContext]
    /\ ares' = [ares EXCEPT ![t] = NoResult]
    /\ log' = [log EXCEPT ![t] = <<>>]
    /\ UNCHANGED <<now, configVars, ret, groq_history, gemini_history, usage, attempts,
                   storeVars, llm_raw, cacheVars>>

NextRL ==
    \/ \E t \in Callers : \E tokens \in TokenCounts : CallAnalyze(t, tokens)
    \/ \E t \in Callers : Analyze(t)
    \/ \E t \in Callers : CallerDone(t)
    \/ \E d \in ClockSteps :
          now + d <= MaxSteps * (WindowSeconds + 1) /\ Tick(d)

SpecRL == Init /\ [][NextRL]_vars

\* ------------------------------------- the rate limiter called on its own

\* Timeouts given to wait_for_*: none, a window and a second, and one more.
WaitTimeouts == {0, WindowSeconds + 1, WindowSeconds + 2}

\* One task calls wait_for_*: the first caller.
Waiters == {t \in Callers : \A s \in Callers : t <= s}

History(p) == IF p = "groq" THEN groq_history ELSE gemini_history
MaxLen(p) == IF p = "groq" THEN GroqMaxLen ELSE GeminiMaxLen

\* A method of the limiter touches the history it is about, and no other.
SetHistory(p, history) ==
    /\ groq_history' = IF p = "groq" THEN history ELSE groq_history
    /\ gemini_history' = IF p = "gemini" THEN history ELSE gemini_history

limiterFrame == <<configVars, ares, storeVars, llm_raw, cacheVars, attempts, log>>

\* As CanUseCall, a granted check counting as a usage.
CanUseCallRecords(p) ==
    /\ running = {}
    /\ LET cleaned == CleanHistory(History(p), now) IN
       /\ SetHistory(p, IF CanUse(cleaned, Limit(p))
                        THEN DequeAppend(cleaned, MaxLen(p), now) ELSE cleaned)
       /\ ret' = [op |-> "can_use", p |-> p, value |-> CanUse(cleaned, Limit(p))]
    /\ UNCHANGED <<now, running, pc, ctx, usage, limiterFrame>>

\* can_use_groq / can_use_gemini
CanUseCall(p) ==
    /\ running = {}
    /\ LET cleaned == CleanHistory(History(p), now) IN
       /\ SetHistory(p, cleaned)
       /\ ret' = [op |-> "can_use", p |-> p, value |-> CanUse(cleaned, Limit(p))]
    /\ UNCHANGED <<now, running, pc, ctx, usage, limiterFrame>>

\* As RecordUsage, with one history shared by the two providers.
RecordUsageShared(p) ==
    /\ running = {}
    /\ groq_history' = DequeAppend(groq_history, GroqMaxLen, now)
    /\ gemini_history' = DequeAppend(gemini_history, GeminiMaxLen, now)
    /\ usage' = [usage EXCEPT ![p] = Append(@, now)]
    /\ ret' = [op |-> "record", p |-> p, value |-> NONE]
    /\ UNCHANGED <<now, running, pc, ctx, limiterFrame>>

\* record_groq_usage / record_gemini_usage
RecordUsage(p) ==
    /\ running = {}
    /\ SetHistory(p, DequeAppend(History(p), MaxLen(p), now))
    /\ usage' = [usage EXCEPT ![p] = Append(@, now)]
    /\ ret' = [op |-> "record", p |-> p, value |-> NONE]
    /\ UNCHANGED <<now, running, pc, ctx, limiterFrame>>

\* A run of SpecLimiter records at most one usage more than the provider's
\* limit.
RecordOverLimit(p) == Len(usage[p]) <= Limit(p) /\ RecordUsage(p)

\* A run of SpecStats records as much, or it fills gemini's deque in one
\* instant with one usage more than the deque holds.
RecordBurst(p) ==
    /\ \/ Len(usage[p]) <= Limit(p)
       \/ /\ p = "gemini"
          /\ Len(usage[p]) <= MaxLen(p)
          /\ \A i \in 1..Len(usage[p]) : usage[p][i] = now
    /\ RecordUsage(p)

\* As Stats, with an available count that stops at zero.
StatsClamped(groq, gemini) ==
    [groq_used |-> Len(groq), groq_limit |-> GroqLimit,
     groq_available |-> IF Len(groq) > GroqLimit THEN 0 ELSE GroqLimit - Len(groq),
     gemini_used |-> Len(gemini), gemini_limit |-> GeminiLimit,
     gemini_available |-> IF Len(gemini) > GeminiLimit THEN 0 ELSE GeminiLimit - Len(gemini)]

\* The dictionary get_stats builds from the two cleaned histories.
Stats(groq, gemini) ==
    [groq_used |-> Len(groq), groq_limit |-> GroqLimit,
     groq_available |-> GroqLimit - Len(groq),
     gemini_used |-> Len(gemini), gemini_limit |-> GeminiLimit,
     gemini_available |-> GeminiLimit - Len(gemini)]

\* RateLimitManager.get_stats
LimiterGetStats ==
    /\ running = {}
    /\ LET groq == CleanHistory(groq_history, now)
           gemini == CleanHistory(gemini_history, now)
       IN /\ groq_history' = groq
          /\ gemini_history' = gemini
          /\ ret' = [op |-> "get_stats", p |-> NONE, value |-> Stats(groq, gemini)]
    /\ UNCHANGED <<now, running, pc, ctx, usage, limiterFrame>>

\* wait_for_groq / wait_for_gemini, line 147 (164): start = time.time().
\* free tells whether the provider had capacity at that moment.
WaitForCall(t, p, timeout) ==
    /\ running = {}
    /\ pc[t] = "idle"
    /\ ctx' = [ctx EXCEPT ![t] =
                  [p |-> p, timeout |-> timeout, start |-> now, slept |-> now,
                   free |-> CanUse(CleanHistory(History(p), now), Limit(p))]]
    /\ pc' = [pc EXCEPT ![t] = "wait_check"]
    /\ running' = {t}
    /\ UNCHANGED <<now, ret, groq_history, gemini_history, usage, limiterFrame>>

WaitForReturn(t, value) ==
    /\ ret' = [op |-> "wait_for", p |-> ctx[t].p, timeout |-> ctx[t].timeout,
               start |-> ctx[t].start, free |-> ctx[t].free, value |-> value]
    /\ pc' = [pc EXCEPT ![t] = "done"]
    /\ ctx' = [ctx EXCEPT ![t] = NoContext]

\* wait_for_*, lines 148-152 (165-169): one turn of the loop.  The admission
\* check is made only while the time since start is below the timeout; a
\* refused check is followed by asyncio.sleep(1.0), which suspends.
WaitForCheck(t) ==
    /\ running = {t}
    /\ pc[t] = "wait_check"
    /\ LET p == ctx[t].p
           cleaned == CleanHistory(History(p), now)
       IN IF now - ctx[t].start < ctx[t].timeout
          THEN /\ SetHistory(p, cleaned)
               /\ IF CanUse(cleaned, Limit(p))
                  THEN WaitForReturn(t, TRUE)
                  ELSE /\ pc' = [pc EXCEPT ![t] = "wait_sleep"]
                       /\ ctx' = [ctx EXCEPT ![t].slept = now]
                       /\ UNCHANGED ret
          ELSE /\ WaitForReturn(t, FALSE)
               /\ UNCHANGED <<groq_history, gemini_history>>
    /\ running' = {}
    /\ UNCHANGED <<now, usage, limiterFrame>>

\* asyncio.sleep(1.0) is over: a second or more has passed.
WaitForWake(t) ==
    /\ running = {}
    /\ pc[t] = "wait_sleep"
    /\ now >= ctx[t].slept + 1
    /\ pc' = [pc EXCEPT ![t] = "wait_check"]
    /\ running' = {t}
    /\ UNCHANGED <<now, ret, ctx, groq_history, gemini_history, usage, limiterFrame>>

\* The limiter does not read the providers' configuration.
InitLimiter == Init /\ groq_client /\ gemini_configured

NextLimiter ==
    \/ \E p \in Providers : CanUseCall(p)
    \/ \E p \in Providers : RecordOverLimit(p)
    \/ LimiterGetStats
    \/ \E t \in Waiters : \E p \in Providers : \E timeout \in WaitTimeouts :
          WaitForCall(t, p, timeout)
    \/ \E t \in Waiters : WaitForCheck(t)
    \/ \E t \in Waiters : WaitForWake(t)
    \/ \E d \in ClockSteps :
          now + d <= MaxSteps * (WindowSeconds + 1) /\ Tick(d)

SpecLimiter == InitLimiter /\ [][NextLimiter]_vars

\* get_stats after records and clock advances.
NextStats ==
    \/ \E p \in Providers : RecordBurst(p)
    \/ LimiterGetStats
    \/ \E d \in ClockSteps :
          now + d <= MaxSteps * (WindowSeconds + 1) /\ Tick(d)

SpecStats == InitLimiter /\ [][NextStats]_vars

\* The limits a limiter may be configured with (config.py: any integer from 1
\* on): the run's, the capacity of the provider's deque, and one more.
AdmitLimits(p) == {Limit(p), MaxLen(p), MaxLen(p) + 1}

\* can_use_groq / can_use_gemini of a limiter built with the given limit; the
\* limit is read by these two methods and by get_stats only.
CanUseUnder(p, limit) ==
    /\ running = {}
    /\ LET cleaned == CleanHistory(History(p), now) IN
       /\ SetHistory(p, cleaned)
       /\ ret' = [op |-> "can_use", p |-> p, limit |-> limit,
                  value |-> CanUse(cleaned, limit)]
    /\ UNCHANGED <<now, running, pc, ctx, usage, limiterFrame>>

\* Admission checks under each limit, after records and clock advances.
NextCapacity ==
    \/ \E p \in Providers : RecordBurst(p)
    \/ \E p \in Providers : \E limit \in AdmitLimits(p) : CanUseUnder(p, limit)
    \/ \E d \in ClockSteps :
          now + d <= MaxSteps * (WindowSeconds + 1) /\ Tick(d)

SpecCapacity == InitLimiter /\ [][NextCapacity]_vars

\* ---------------------------------------------------------- cache key

\* URL strings are sequences of characters: a lower-case letter, an
\* upper-case letter, the slash and a blank.
Chars == {"h", "H", "/", " "}
UrlStrings == UNION {[1..n -> Chars] : n \in 0..MaxUrlLen}

\* str.lstrip() / str.rstrip() / str.strip(): whitespace off the ends.
RECURSIVE LStrip(_)
LStrip(str) == IF str # <<>> /\ Head(str) = " " THEN LStrip(Tail(str)) ELSE str
RECURSIVE RStrip(_)
RStrip(str) ==
    IF str # <<>> /\ str[Len(str)] = " " THEN RStrip(SubSeq(str, 1, Len(str) - 1)) ELSE str
Strip(str) == RStrip(LStrip(str))

\* str.lower()
Lower(str) == [i \in 1..Len(str) |-> IF str[i] = "H" THEN "h" ELSE str[i]]

\* str.rstrip("/"): every trailing slash goes.
RECURSIVE RStripSlash(_)
RStripSlash(str) ==
    IF str # <<>> /\ str[Len(str)] = "/"
    THEN RStripSlash(SubSeq(str, 1, Len(str) - 1)) ELSE str

\* _hash_url, line 113: url.strip().lower().rstrip("/")
Normalize(u) == RStripSlash(Lower(Strip(u)))

\* _hash_url: the digest of the normalized string.  The digest is taken as
\* one-to-one (the 64 bits kept of SHA-256 do not collide on the model's
\* strings).
Sha256(str) == [sha256 |-> str]
HashUrl(u) == Sha256(Normalize(u))

\* _hash_url called on its own.
CallHashUrl(u) ==
    /\ ret' = [op |-> "_hash_url", url |-> u, value |-> HashUrl(u)]
    /\ UNCHANGED <<now, running, pc, configVars, limiterVars, ctx, ares, storeVars,
                   llm_raw, cacheVars>>

NextKey == \E u \in UrlStrings : CallHashUrl(u)

SpecKey == Init /\ [][NextKey]_vars

\* ------------------------------------------- the parse called on its own

\* JSON objects a provider answers with.
Objects == {"{}", "{a:1}", "{a:1,b:2}", "{a:{b:1}}", "{a:{b:1},c:2}",
            "{a:{b:{c:1}}}", "{a:[1,2]}", "{a:[{b:1}]}"}

\* The object with a comma after the last member of one of its objects.
CommaBefore(s, i) == SubSeq(s, 1, i - 1) \o "," \o SubSeq(s, i, Len(s))
TrailingCommas(s) ==
    {CommaBefore(s, i) : i \in {x \in 2..Len(s) : At(s, x) = "}" /\ At(s, x - 1) # "{"}}

\* The ways a provider presents an object: alone, in a fenced block with or
\* without the language tag, after a sentence, in a block followed by one.
Fenced(s) == Fence \o "json\n" \o s \o "\n" \o Fence
Presentations(s) ==
    {s, Fenced(s), Fence \o "\n" \o s \o "\n" \o Fence, "Resumen: " \o s,
     Fenced(s) \o "\nEspero que ayude"}

\* Responses that hold no object, or more than one.
OtherTexts == {"", " ", "\n", "prose", "deep", "full", "1", "[1]", "{", "}{",
               "{a:1}{b:2}", Fenced("{a:1"), Pad(PostChars + 1), Pad(CommentsEnd + 200)}

ParseTexts ==
    UNION {Presentations(s) : s \in Objects \cup UNION {TrailingCommas(o) : o \in Objects}}
        \cup OtherTexts

\* _parse_json_response called on its own.
CallParseJsonResponse(text) ==
    /\ ret' = [op |-> "_parse_json_response", text |-> text,
               result |-> ParseJsonResponse(text)]
    /\ UNCHANGED <<now, running, pc, configVars, limiterVars, ctx, ares, storeVars,
                   llm_raw, cacheVars>>

NextParse == \E text \in ParseTexts : CallParseJsonResponse(text)

\* The parse reads no state: both providers configured, as in InitLimiter.
SpecParse == InitLimiter /\ [][NextParse]_vars

\* --------------------------------------------------------- job store

\* JobStore.cleanup: the ids whose creation time is older than the TTL.
Expired == {id \in DOMAIN created_at : created_at[id] < now - JobTtl}

\* dict without the keys ks.
Without(dict, ks) == [k \in DOMAIN dict \ ks |-> dict[k]]

\* JobStore.get finds a record.
StoreHas(id) == id \in jobs

\* JobStore.get: the record stored under id, or None.  The creation time is
\* not looked at.
JobStoreGet(id) == IF id \in jobs THEN Some(job[id]) ELSE Null

\* A JobStatus as submit_analysis builds it.
NewJobStatus == [status |-> "queued", progress |-> 0, result |-> Null, error |-> Null]

\* ----------------------------------- the job store called on its own

\* The JobStatus objects handed to add and update.
StatusRecords ==
    {NewJobStatus,
     [status |-> "processing", progress |-> 35, result |-> Null, error |-> Null],
     [status |-> "failed", progress |-> 10, result |-> Null, error |-> Some("e")]}

\* What no method of the job store touches.
storeFrame == <<running, pc, configVars, limiterVars, ctx, ares, url, llm_raw, cacheVars>>

\* JobStore.add: cleanup, then the record is stored under id with the
\* current time.
JobStoreAdd(id, rec) ==
    /\ jobs' = (jobs \ Expired) \cup {id}
    /\ created_at' = (id :> now) @@ Without(created_at, Expired)
    /\ job' = [job EXCEPT ![id] = rec]
    /\ ret' = [op |-> "add", id |-> id, value |-> NONE]
    /\ UNCHANGED <<now, storeFrame>>

\* JobStore.get
JobStoreGetCall(id) ==
    /\ ret' = [op |-> "get", id |-> id, value |-> JobStoreGet(id)]
    /\ UNCHANGED <<now, jobs, created_at, job, storeFrame>>

\* As JobStoreUpdate, storing the record also under an unknown id.
JobStoreUpdateUpsert(id, rec) ==
    /\ jobs' = jobs \cup {id}
    /\ job' = [job EXCEPT ![id] = rec]
    /\ ret' = [op |-> "update", id |-> id, value |-> id \in jobs]
    /\ UNCHANGED <<now, created_at, storeFrame>>

\* JobStore.update: False for an unknown id; else the record is replaced.
\* There is no cleanup and the creation time is not looked at.
JobStoreUpdate(id, rec) ==
    /\ IF id \notin jobs
       THEN /\ ret' = [op |-> "update", id |-> id, value |-> FALSE]
            /\ UNCHANGED job
       ELSE /\ job' = [job EXCEPT ![id] = rec]
            /\ ret' = [op |-> "update", id |-> id, value |-> TRUE]
    /\ UNCHANGED <<now, jobs, created_at, storeFrame>>

\* JobStore.remove: False for an unknown id; else the record and its creation
\* time are deleted.  There is no cleanup.
JobStoreRemove(id) ==
    /\ IF id \notin jobs
       THEN /\ ret' = [op |-> "remove", id |-> id, value |-> FALSE]
            /\ UNCHANGED <<jobs, created_at>>
       ELSE /\ jobs' = jobs \ {id}
            /\ created_at' = Without(created_at, {id})
            /\ ret' = [op |-> "remove", id |-> id, value |-> TRUE]
    /\ UNCHANGED <<now, job, storeFrame>>

\* JobStore.cleanup: the expired records go; their number is returned.
JobStoreCleanup ==
    /\ jobs' = jobs \ Expired
    /\ created_at' = Without(created_at, Expired)
    /\ ret' = [op |-> "cleanup", id |-> 0, value |-> Cardinality(Expired)]
    /\ UNCHANGED <<now, job, storeFrame>>

\* As JobStoreStats, without the cleanup.
JobStoreStatsNoCleanup ==
    /\ ret' = [op |-> "stats", id |-> 0,
               value |-> [st \in {"queued", "processing", "completed", "failed"} |->
                             Cardinality({id \in jobs : job[id].status = st})]
                         @@ [total |-> Cardinality(jobs)]]
    /\ UNCHANGED <<now, jobs, created_at, job, storeFrame>>

\* JobStore.stats: cleanup, then the records left are counted by status.
JobStoreStats ==
    /\ jobs' = jobs \ Expired
    /\ created_at' = Without(created_at, Expired)
    /\ ret' = [op |-> "stats", id |-> 0,
               value |-> [st \in {"queued", "processing", "completed", "failed"} |->
                             Cardinality({id \in jobs \ Expired : job[id].status = st})]
                         @@ [total |-> Cardinality(jobs \ Expired)]]
    /\ UNCHANGED <<now, job, storeFrame>>

\* JobStore.clear: everything goes; the number of records is returned.
JobStoreClear ==
    /\ jobs' = {}
    /\ created_at' = <<>>
    /\ ret' = [op |-> "clear", id |-> 0, value |-> Cardinality(jobs)]
    /\ UNCHANGED <<now, job, storeFrame>>

NextStore ==
    \/ \E id \in JobIds : \E rec \in StatusRecords : JobStoreAdd(id, rec)
    \/ \E id \in JobIds : JobStoreGetCall(id)
    \/ \E id \in JobIds : \E rec \in StatusRecords : JobStoreUpdate(id, rec)
    \/ \E id \in JobIds : JobStoreRemove(id)
    \/ JobStoreCleanup
    \/ JobStoreStats
    \/ JobStoreClear
    \/ now < MaxClock /\ Tick(1)

SpecStore == Init /\ [][NextStore]_vars

\* The job store called on its own with two ids, so that its counts go
\* beyond one.
NextTracker ==
    \/ \E id \in AllJobIds : \E rec \in StatusRecords : JobStoreAdd(id, rec)
    \/ \E id \in AllJobIds : \E rec \in StatusRecords : JobStoreUpdate(id, rec)
    \/ \E id \in AllJobIds : JobStoreRemove(id)
    \/ JobStoreCleanup
    \/ JobStoreStats
    \/ JobStoreClear
    \/ now < MaxClock /\ Tick(1)

SpecTracker == InitLimiter /\ [][NextTracker]_vars

\* ------------------------------------------------------------- cache

\* json.dumps of the leaves of an analysis.  A number is written in digits; a
\* string is written as it is, its non-ASCII characters escaped unless
\* ensure_ascii is off; None is written null.
JsonString(str, ensure_ascii) ==
    [json |-> "string", text |-> IF ensure_ascii /\ str = "año" THEN "a\\u00f1o" ELSE str]
JsonNumber(n) == [json |-> "number", text |-> ToString(n)]
JsonNull == [json |-> "null", text |-> "null"]

\* json.dumps of one link, a dict of strings, None and a score.
JsonDumpsLink(link, ensure_ascii) ==
    [k \in DOMAIN link.items |->
        IF k = "relevance_score" THEN JsonNumber(link.items[k])
        ELSE IF link.items[k] = NONE THEN JsonNull
        ELSE JsonString(link.items[k], ensure_ascii)]

\* json.dumps(analysis, ensure_ascii=...) of an AnalysisResult's model_dump.
JsonDumps(analysis, ensure_ascii) ==
    [summary_post |-> JsonString(analysis.summary_post, ensure_ascii),
     sentiment_post |-> [label |-> JsonString(analysis.sentiment_post.label, ensure_ascii),
                         score |-> JsonNumber(analysis.sentiment_post.score)],
     useful_links |-> [i \in 1..Len(analysis.useful_links) |->
                          JsonDumpsLink(analysis.useful_links[i], ensure_ascii)]]

\* The numbers of the model's analyses.
Numbers == 0..150

\* json.loads of a leaf: digits are read back as the number, an escape as
\* its character, null as None.
JsonLoadsLeaf(x) ==
    CASE x.json = "number" -> CHOOSE n \in Numbers : ToString(n) = x.text
      [] x.json = "null" -> NONE
      [] x.json = "string" -> IF x.text = "a\\u00f1o" THEN "año" ELSE x.text

\* json.loads of a serialized analysis.
JsonLoadsAnalysis(text) ==
    [summary_post |-> JsonLoadsLeaf(text.summary_post),
     sentiment_post |-> [label |-> JsonLoadsLeaf(text.sentiment_post.label),
                         score |-> JsonLoadsLeaf(text.sentiment_post.score)],
     useful_links |-> [i \in 1..Len(text.useful_links) |->
                          JDict([k \in DOMAIN text.useful_links[i] |->
                                    JsonLoadsLeaf(text.useful_links[i][k])])]]

\* InMemoryCache.get: the value under key when it is there and younger than
\* the TTL, else None; an entry found expired is deleted.
HotGet(key) ==
    IF key \in DOMAIN hot /\ now - hot[key].ts < HotCacheTtl
    THEN Some(hot[key].value) ELSE Null
HotAfterGet(key) ==
    IF key \in DOMAIN hot /\ ~(now - hot[key].ts < HotCacheTtl)
    THEN Without(hot, {key}) ELSE hot

\* InMemoryCache.setex
HotSetex(data, key, value) == (key :> [ts |-> now, value |-> value]) @@ data

\* The storage operations of DualCacheManager.get that may raise: the read of
\* either tier, the write back to the hot tier, the UPDATE of the counter.
GetFaults == [hot_read : BOOLEAN, cold_read : BOOLEAN, rehydrate : BOOLEAN, count : BOOLEAN]
NoFaults == [hot_read |-> FALSE, cold_read |-> FALSE, rehydrate |-> FALSE, count |-> FALSE]

\* As CacheGet, never reading the cold tier.
CacheGetHotOnly(u, f) ==
    IF ~f.hot_read /\ HotGet(HashUrl(u)) # Null
    THEN Some(JsonLoadsAnalysis(HotGet(HashUrl(u))[1])) ELSE Null

\* As CacheGet, a failed write back or a failed UPDATE of the counter failing
\* the read.
CacheGetBestEffortFatal(u, f) ==
    LET key == HashUrl(u) IN
    IF ~f.hot_read /\ HotGet(key) # Null THEN Some(JsonLoadsAnalysis(HotGet(key)[1]))
    ELSE IF ~f.cold_read /\ ~f.rehydrate /\ ~f.count /\ key \in DOMAIN cold
         THEN Some(JsonLoadsAnalysis(cold[key].analysis))
         ELSE Null

\* DualCacheManager.get: what it returns for u when the operations of f raise.
\* A hot value is parsed and returned; else a cold row is parsed and
\* returned; each exception is caught and leads to the next step or to None.
CacheGet(u, f) ==
    LET key == HashUrl(u) IN
    IF ~f.hot_read /\ HotGet(key) # Null THEN Some(JsonLoadsAnalysis(HotGet(key)[1]))
    ELSE IF ~f.cold_read /\ key \in DOMAIN cold
         THEN Some(JsonLoadsAnalysis(cold[key].analysis))
         ELSE Null

\* DualCacheManager.get, what it writes: the hot read deletes an expired
\* entry; a cold hit is written back to the hot tier with the current time
\* (json.dumps with its default ensure_ascii) and counted, each in its own
\* try.
CacheGetEffect(u, f) ==
    LET key == HashUrl(u)
        hot1 == IF f.hot_read THEN hot ELSE HotAfterGet(key)
    IN
    IF ~f.hot_read /\ HotGet(key) # Null THEN UNCHANGED <<hot, cold>>
    ELSE IF ~f.cold_read /\ key \in DOMAIN cold
         THEN /\ hot' = IF f.rehydrate THEN hot1
                        ELSE HotSetex(hot1, key,
                                 JsonDumps(JsonLoadsAnalysis(cold[key].analysis), TRUE))
              /\ cold' = IF f.count THEN cold
                         ELSE [cold EXCEPT ![key].access_count = @ + 1]
         ELSE /\ hot' = hot1
              /\ UNCHANGED cold

\* As CacheSave, the upsert starting the counter again.
CacheSaveResetCount(u, analysis, hot_ok, cold_ok) ==
    LET key == HashUrl(u)
        serialized == JsonDumps(analysis, FALSE)
    IN
    /\ hot' = IF hot_ok THEN HotSetex(hot, key, serialized) ELSE hot
    /\ cold' = IF cold_ok
               THEN (key :> [url |-> IF key \in DOMAIN cold THEN cold[key].url ELSE u,
                             analysis |-> serialized,
                             access_count |-> 1]) @@ cold
               ELSE cold

\* DualCacheManager.save: the analysis is serialized; the hot tier is set
\* unless that raises; the cold row is inserted with a count of 1, or on a
\* conflict its analysis is replaced and its count incremented, unless that
\* raises.  There is no await in it.
CacheSave(u, analysis, hot_ok, cold_ok) ==
    LET key == HashUrl(u)
        serialized == JsonDumps(analysis, FALSE)
    IN
    /\ hot' = IF hot_ok THEN HotSetex(hot, key, serialized) ELSE hot
    /\ cold' = IF cold_ok
               THEN (key :> [url |-> IF key \in DOMAIN cold THEN cold[key].url ELSE u,
                             analysis |-> serialized,
                             access_count |-> IF key \in DOMAIN cold
                                              THEN cold[key].access_count + 1 ELSE 1]) @@ cold
               ELSE cold

\* As CacheInvalidate, deleting the key from the hot tier only.
CacheInvalidateHotOnly(u, hot_ok, cold_ok) ==
    /\ hot' = IF hot_ok THEN Without(hot, {HashUrl(u)}) ELSE hot
    /\ cold' = cold

\* DualCacheManager.invalidate: the key is deleted from each tier unless that
\* raises.
CacheInvalidate(u, hot_ok, cold_ok) ==
    /\ hot' = IF hot_ok THEN Without(hot, {HashUrl(u)}) ELSE hot
    /\ cold' = IF cold_ok THEN Without(cold, {HashUrl(u)}) ELSE cold

\* The counter of u's row may still grow within the bound.
CountBelowMax(u) ==
    HashUrl(u) \in DOMAIN cold => cold[HashUrl(u)].access_count < MaxCount

\* ---------------------------------------------------------- endpoints

\* The job id of a descriptor served from the cache, "cache" in the code; the
\* ids of jobs are 1, 2, ...
CacheJobId == 0

\* As SubmitAnalysis, a cache hit also sweeping the job store.
SubmitAnalysisSweepsOnHit(u, force_refresh, f) ==
    LET cached == IF force_refresh THEN Null ELSE CacheGet(u, f) IN
    /\ running = {}
    /\ IF force_refresh THEN UNCHANGED <<hot, cold>>
       ELSE CountBelowMax(u) /\ CacheGetEffect(u, f)
    /\ IF cached # Null
       THEN /\ ret' = [op |-> "submit", url |-> u,
                       job_id |-> CacheJobId,
                       value |-> [status |-> "completed", progress |-> 100,
                                  result |-> cached, error |-> Null]]
            /\ jobs' = jobs \ Expired
            /\ created_at' = Without(created_at, Expired)
            /\ UNCHANGED <<pc, job, url>>
       ELSE \E id \in JobIds :
               /\ pc[id] = "idle"
               /\ \A other \in JobIds : other < id => pc[other] # "idle"
               /\ jobs' = (jobs \ Expired) \cup {id}
               /\ created_at' = (id :> now) @@ Without(created_at, Expired)
               /\ job' = [job EXCEPT ![id] = NewJobStatus]
               /\ url' = [url EXCEPT ![id] = u]
               /\ pc' = [pc EXCEPT ![id] = "created"]
               /\ ret' = [op |-> "submit", url |-> u,
                          job_id |-> id, value |-> NewJobStatus]
    /\ UNCHANGED <<now, running, configVars, limiterVars, ctx, ares, llm_raw>>

\* As SubmitAnalysisIn, the cache being read whatever force_refresh is.
SubmitAnalysisInAlwaysReads(ids, u, force_refresh, f) ==
    LET cached == CacheGet(u, f) IN
    /\ running = {}
    /\ CountBelowMax(u) /\ CacheGetEffect(u, f)
    /\ IF cached # Null
       THEN /\ ret' = [op |-> "submit", url |-> u,
                       job_id |-> CacheJobId,
                       value |-> [status |-> "completed", progress |-> 100,
                                  result |-> cached, error |-> Null]]
            /\ UNCHANGED <<pc, jobs, created_at, job, url>>
       ELSE \E id \in ids :
               /\ pc[id] = "idle"
               /\ \A other \in ids : other < id => pc[other] # "idle"
               \* job_store.add: cleanup, then the insert
               /\ jobs' = (jobs \ Expired) \cup {id}
               /\ created_at' = (id :> now) @@ Without(created_at, Expired)
               /\ job' = [job EXCEPT ![id] = NewJobStatus]
               /\ url' = [url EXCEPT ![id] = u]
               \* asyncio.create_task
               /\ pc' = [pc EXCEPT ![id] = "created"]
               /\ ret' = [op |-> "submit", url |-> u,
                          job_id |-> id, value |-> NewJobStatus]
    /\ UNCHANGED <<now, running, configVars, limiterVars, ctx, ares, llm_raw>>

\* As SubmitAnalysisIn, a submission joining the job that is at work on the
\* same URL instead of creating one.
SubmitAnalysisInCoalesces(ids, u, force_refresh, f) ==
    LET cached == IF force_refresh THEN Null ELSE CacheGet(u, f)
        same == {id \in ids \cap jobs : url[id] = u /\ pc[id] \notin {"idle", "done"}}
    IN
    /\ running = {}
    /\ IF force_refresh THEN UNCHANGED <<hot, cold>>
       ELSE CountBelowMax(u) /\ CacheGetEffect(u, f)
    /\ IF cached # Null
       THEN /\ ret' = [op |-> "submit", url |-> u,
                       job_id |-> CacheJobId,
                       value |-> [status |-> "completed", progress |-> 100,
                                  result |-> cached, error |-> Null]]
            /\ UNCHANGED <<pc, jobs, created_at, job, url>>
       ELSE IF same # {}
       THEN /\ \E id \in same :
                  ret' = [op |-> "submit", url |-> u, job_id |-> id, value |-> job[id]]
            /\ UNCHANGED <<pc, jobs, created_at, job, url>>
       ELSE \E id \in ids :
               /\ pc[id] = "idle"
               /\ \A other \in ids : other < id => pc[other] # "idle"
               /\ jobs' = (jobs \ Expired) \cup {id}
               /\ created_at' = (id :> now) @@ Without(created_at, Expired)
               /\ job' = [job EXCEPT ![id] = NewJobStatus]
               /\ url' = [url EXCEPT ![id] = u]
               /\ pc' = [pc EXCEPT ![id] = "created"]
               /\ ret' = [op |-> "submit", url |-> u,
                          job_id |-> id, value |-> NewJobStatus]
    /\ UNCHANGED <<now, running, configVars, limiterVars, ctx, ares, llm_raw>>

\* submit_analysis once the URL has passed its check (lines 114-141).  Unless force_refresh, the cache is read
\* (f: what raises in that read) and a result found is returned at once as a
\* completed JobStatus under the id "cache".  Otherwise a queued JobStatus is
\* added to the store under the next unused id, the pipeline task is created
\* and the JobStatus is returned.
SubmitAnalysisIn(ids, u, force_refresh, f) ==
    LET cached == IF force_refresh THEN Null ELSE CacheGet(u, f) IN
    /\ running = {}
    /\ IF force_refresh THEN UNCHANGED <<hot, cold>>
       ELSE CountBelowMax(u) /\ CacheGetEffect(u, f)
    /\ IF cached # Null
       THEN /\ ret' = [op |-> "submit", url |-> u,
                       job_id |-> CacheJobId,
                       value |-> [status |-> "completed", progress |-> 100,
                                  result |-> cached, error |-> Null]]
            /\ UNCHANGED <<pc, jobs, created_at, job, url>>
       ELSE \E id \in ids :
               /\ pc[id] = "idle"
               /\ \A other \in ids : other < id => pc[other] # "idle"
               \* job_store.add: cleanup, then the insert
               /\ jobs' = (jobs \ Expired) \cup {id}
               /\ created_at' = (id :> now) @@ Without(created_at, Expired)
               /\ job' = [job EXCEPT ![id] = NewJobStatus]
               /\ url' = [url EXCEPT ![id] = u]
               \* asyncio.create_task
               /\ pc' = [pc EXCEPT ![id] = "created"]
               /\ ret' = [op |-> "submit", url |-> u,
                          job_id |-> id, value |-> NewJobStatus]
    /\ UNCHANGED <<now, running, configVars, limiterVars, ctx, ares, llm_raw>>

\* submit_analysis in a run that hands out the ids of JobIds.
SubmitAnalysis(u, force_refresh, f) == SubmitAnalysisIn(JobIds, u, force_refresh, f)

\* AnalyzeRequest.validate_reddit_url, the validator of the request's url
\* field: the normalised string, or ValueError when it is empty or names
\* neither reddit.com nor redd.it.
RequestUrl(raw) ==
    LET v == RStripSlash(Strip(raw)) IN
    IF v = <<>> \/ ~\E i \in 1..Len(v) : v[i] \in {ShortLink, "redd.it"}
    THEN [ok |-> FALSE, value |-> raw]
    ELSE [ok |-> TRUE, value |-> v]

\* main.validate_reddit_url: re.search with REDDIT_URL_PATTERNS; on the pieces
\* of the model, the short-link pattern https?://redd\.it/[A-Za-z0-9]+.
ValidateRedditUrl(u) ==
    \E i \in 1..(Len(u) - 2) :
        u[i] = ShortLink /\ u[i + 1] = "/" /\ u[i + 2] \in {"h", "H"}

\* The answer to a request that was refused: 422 from the request model, 400
\* from the handler.  Nothing else happens.
Rejected(code) ==
    /\ running = {}
    /\ ret' = [op |-> "submit_error", code |-> code]
    /\ UNCHANGED <<now, running, pc, configVars, limiterVars, ctx, ares, storeVars,
                   llm_raw, cacheVars>>

\* As PostAnalyze, the handler trusting the request model's validation.
PostAnalyzeUnchecked(raw, force_refresh, f) ==
    LET request == RequestUrl(raw) IN
    IF ~request.ok THEN Rejected(422)
    ELSE SubmitAnalysis(request.value, force_refresh, f)

\* POST /v1/analyze: the request model validates the url field (422), then
\* submit_analysis checks it against the URL patterns (400, main.py 108-112)
\* before anything else.
PostAnalyze(raw, force_refresh, f) ==
    LET request == RequestUrl(raw) IN
    IF ~request.ok THEN Rejected(422)
    ELSE IF ~ValidateRedditUrl(request.value) THEN Rejected(400)
    ELSE SubmitAnalysis(request.value, force_refresh, f)

\* get_job_status: job_store.get; the record is returned as it is, or 404
\* when there is none.  Nothing is written.
GetJobStatusAnswer(id) ==
    IF JobStoreGet(id) = Null THEN [code |-> 404, body |-> Null]
    ELSE [code |-> 200, body |-> JobStoreGet(id)]

GetJobStatus(id) ==
    /\ running = {}
    /\ GetJobStatusAnswer(id).code \in {200, 404}
    /\ UNCHANGED vars

\* The /v1/stats and /v1/health endpoints: job_store.stats() sweeps first.
GetStats ==
    /\ running = {}
    /\ Expired # {}
    /\ jobs' = jobs \ Expired
    /\ created_at' = Without(created_at, Expired)
    /\ UNCHANGED <<now, running, pc, configVars, ret, limiterVars, ctx, ares, job, url, llm_raw, cacheVars>>

\* ----------------------------------------------------------- pipeline

\* The except clauses of process_analysis_pipeline: the job is marked failed
\* with the (cut) message; its progress stays where it was.
FailNoError(rec, message) == [rec EXCEPT !.status = "failed"]
FailResetProgress(rec, message) ==
    [rec EXCEPT !.status = "failed", !.error = Some(message), !.progress = 0]
Fail(rec, message) == [rec EXCEPT !.status = "failed", !.error = Some(message)]

Labels == {"Positivo", "Negativo", "Neutro", "Mixto", "Controversial"}

\* SentimentObj(label=data.get("label", "Neutro"), score=float(data.get("score",
\* 0.5)), ...): the exception it raises on data, or NONE.  data.get needs a
\* dict (AttributeError); the label must be one of Labels and the score in
\* [0, 1] (pydantic's ValidationError, a ValueError).
SentimentError(data) ==
    IF data.type # "dict" THEN "AttributeError"
    ELSE IF DictGet(data, "label", "Neutro") \notin Labels THEN "ValidationError"
    ELSE IF DictGet(data, "score", 50) < 0 \/ DictGet(data, "score", 50) > 100
         THEN "ValidationError"
    ELSE NONE

\* The AnalysisResult built from llm_raw and the links, as model_dump gives it.
BuildResult(raw, links) ==
    [summary_post |-> DictGet(raw, "summary_post", ""),
     sentiment_post |-> [label |-> DictGet(DictGet(raw, "sentiment_post", JDict(<<>>)), "label", "Neutro"),
                         score |-> DictGet(DictGet(raw, "sentiment_post", JDict(<<>>)), "score", 50)],
     useful_links |-> links]

\* The exception raised between lines 316 and 352, or NONE: by either
\* SentimentObj, then by AnalysisResult, whose useful_links must be a list of
\* dicts (ValidationError).
BuildError(raw, links) ==
    LET e1 == SentimentError(DictGet(raw, "sentiment_post", JDict(<<>>)))
        e2 == SentimentError(DictGet(raw, "sentiment_comments", JDict(<<>>)))
    IN IF e1 # NONE THEN e1
       ELSE IF e2 # NONE THEN e2
       ELSE IF \E i \in 1..Len(links) : links[i].type # "dict"
            THEN "ValidationError:useful_links"
       ELSE NONE


\* str(e) of the exceptions of the model.  The extractor's ValueError names
\* the URL, of any length, or tells that the post was not found; an
\* exception raised without arguments (TimeoutError) has the empty text.
Message(exc) ==
    CASE exc = "ValueError" -> "Post not found (may be deleted or private)"
      [] exc = "ValueError:url" -> "Invalid Reddit URL format: " \o Pad(ErrorMax)
      [] exc = "Exception" -> "Reddit API error: " \o Pad(UnexpectedMax)
      [] exc = "TimeoutError" -> ""
      [] exc = "ValidationError" -> "1 validation error for SentimentObj"
      [] exc = "ValidationError:useful_links" -> "1 validation error for AnalysisResult"
      [] exc = "AttributeError" -> "object has no attribute 'get'"

\* How the except clauses word an exception: a ValueError (pydantic's
\* ValidationError is one) gives its message, anything else that is no
\* RuntimeError gives "Unexpected error: " and its message.
ErrorText(exc) ==
    IF exc \in {"ValueError", "ValueError:url", "ValidationError",
                "ValidationError:useful_links"}
    THEN Cut(Message(exc), ErrorMax)
    ELSE "Unexpected error: " \o Cut(Message(exc), UnexpectedMax)

\* As PipelineFinish, an exception of a cache write failing the job.
PipelineFinishSaveFatal(j, raw, links, hot_ok, cold_ok) ==
    LET e == BuildError(raw, links) IN
    IF e # NONE
    THEN /\ job' = [job EXCEPT ![j] = Fail([@ EXCEPT !.progress = 85], ErrorText(e))]
         /\ UNCHANGED <<hot, cold>>
    ELSE /\ CountBelowMax(url[j])
         /\ CacheSave(url[j], BuildResult(raw, links), hot_ok, cold_ok)
         /\ job' = [job EXCEPT ![j] =
                      IF hot_ok /\ cold_ok
                      THEN [status |-> "completed", progress |-> 100,
                            result |-> Some(BuildResult(raw, links)), error |-> @.error]
                      ELSE Fail([@ EXCEPT !.progress = 95], ErrorText("Exception"))]

\* As PipelineFinish, the result not being written to the cache.
PipelineFinishNoSave(j, raw, links, hot_ok, cold_ok) ==
    LET e == BuildError(raw, links) IN
    IF e # NONE
    THEN /\ job' = [job EXCEPT ![j] = Fail([@ EXCEPT !.progress = 85], ErrorText(e))]
         /\ UNCHANGED <<hot, cold>>
    ELSE /\ UNCHANGED <<hot, cold>>
         /\ job' = [job EXCEPT ![j] = [status |-> "completed", progress |-> 100,
                                       result |-> Some(BuildResult(raw, links)),
                                       error |-> @.error]]

\* Lines 316-363, which run without suspending: progress 85, the result is
\* built, progress 95, the cache is written, and the job is completed; or the
\* build raises and the job is failed at progress 85.
PipelineFinish(j, raw, links, hot_ok, cold_ok) ==
    LET e == BuildError(raw, links) IN
    IF e # NONE
    THEN /\ job' = [job EXCEPT ![j] = Fail([@ EXCEPT !.progress = 85], ErrorText(e))]
         /\ UNCHANGED <<hot, cold>>
    ELSE /\ CountBelowMax(url[j])
         /\ CacheSave(url[j], BuildResult(raw, links), hot_ok, cold_ok)
         /\ job' = [job EXCEPT ![j] = [status |-> "completed", progress |-> 100,
                                       result |-> Some(BuildResult(raw, links)),
                                       error |-> @.error]]

\* As PipelineStart, the status not being set to processing.
PipelineStartStaysQueued(j) ==
    /\ running = {}
    /\ pc[j] = "created"
    /\ IF ~StoreHas(j)
       THEN /\ pc' = [pc EXCEPT ![j] = "done"]
            /\ UNCHANGED job
       ELSE /\ job' = [job EXCEPT ![j].progress = 10]
            /\ pc' = [pc EXCEPT ![j] = "extracting"]
    /\ running' = AfterStep(j, pc'[j])
    /\ UNCHANGED <<now, configVars, ret, limiterVars, ctx, ares, jobs, created_at, url, llm_raw, cacheVars>>

\* Lines 283-295: the task's first run, up to the await of the extractor.
PipelineStart(j) ==
    /\ running = {}
    /\ pc[j] = "created"
    /\ IF ~StoreHas(j)
       THEN /\ pc' = [pc EXCEPT ![j] = "done"]
            /\ UNCHANGED job
       ELSE /\ job' = [job EXCEPT ![j].status = "processing", ![j].progress = 10]
            /\ pc' = [pc EXCEPT ![j] = "extracting"]
    /\ running' = AfterStep(j, pc'[j])
    /\ UNCHANGED <<now, configVars, ret, limiterVars, ctx, ares, jobs, created_at, url, llm_raw, cacheVars>>

\* What the extractor does: a context of either token estimate, a ValueError
\* (malformed URL, post not found), or another exception.
ExtractExceptions == {"ValueError", "ValueError:url", "Exception", "TimeoutError"}
ExtractOutcomes == [exc : {NONE}, tokens : TokenCounts]
                   \cup [exc : ExtractExceptions, tokens : {0}]

\* As PipelineExtracted, with no except clause for an exception that is not a
\* ValueError: it ends the task and the job stays as it was.
PipelineExtractedUncaught(j, outcome) ==
    /\ running = {}
    /\ pc[j] = "extracting"
    /\ IF outcome.exc = NONE
       THEN /\ ctx' = [ctx EXCEPT ![j] = [token_count_llama |-> outcome.tokens]]
            /\ job' = [job EXCEPT ![j].progress = 35]
            /\ pc' = [pc EXCEPT ![j] = "analyze"]
       ELSE /\ job' = IF outcome.exc \in {"ValueError", "ValueError:url"}
                      THEN [job EXCEPT ![j] = Fail(@, ErrorText(outcome.exc))]
                      ELSE job
            /\ pc' = [pc EXCEPT ![j] = "done"]
            /\ UNCHANGED ctx
    /\ running' = AfterStep(j, pc'[j])
    /\ UNCHANGED <<now, configVars, ret, limiterVars, ares, jobs, created_at, url, llm_raw, cacheVars>>

\* As PipelineExtracted, analyze being entered after a failed extraction too.
PipelineExtractedGoesOn(j, outcome) ==
    /\ running = {}
    /\ pc[j] = "extracting"
    /\ IF outcome.exc = NONE
       THEN /\ ctx' = [ctx EXCEPT ![j] = [token_count_llama |-> outcome.tokens]]
            /\ job' = [job EXCEPT ![j].progress = 35]
            /\ pc' = [pc EXCEPT ![j] = "analyze"]
       ELSE /\ job' = [job EXCEPT ![j] = Fail(@, ErrorText(outcome.exc))]
            /\ pc' = [pc EXCEPT ![j] = "analyze"]
            /\ UNCHANGED ctx
    /\ running' = AfterStep(j, pc'[j])
    /\ UNCHANGED <<now, configVars, ret, limiterVars, ares, jobs, created_at, url, llm_raw, cacheVars>>

\* As PipelineExtracted, job_store.update storing a record the store does not
\* have.
PipelineExtractedReinserts(j, outcome) ==
    /\ running = {}
    /\ pc[j] = "extracting"
    /\ IF outcome.exc = NONE
       THEN /\ ctx' = [ctx EXCEPT ![j] = [token_count_llama |-> outcome.tokens]]
            /\ job' = [job EXCEPT ![j].progress = 35]
            /\ pc' = [pc EXCEPT ![j] = "analyze"]
       ELSE /\ job' = [job EXCEPT ![j] = Fail(@, ErrorText(outcome.exc))]
            /\ pc' = [pc EXCEPT ![j] = "done"]
            /\ UNCHANGED ctx
    /\ jobs' = jobs \cup {j}
    /\ created_at' = IF j \in jobs THEN created_at ELSE (j :> now) @@ created_at
    /\ running' = AfterStep(j, pc'[j])
    /\ UNCHANGED <<now, configVars, ret, limiterVars, ares, url, llm_raw, cacheVars>>

\* Lines 295-301: the extractor is back; progress 35 and analyze is entered,
\* or the exception is recorded.
PipelineExtracted(j, outcome) ==
    /\ running = {}
    /\ pc[j] = "extracting"
    /\ IF outcome.exc = NONE
       THEN /\ ctx' = [ctx EXCEPT ![j] = [token_count_llama |-> outcome.tokens]]
            /\ job' = [job EXCEPT ![j].progress = 35]
            /\ pc' = [pc EXCEPT ![j] = "analyze"]
       ELSE /\ job' = [job EXCEPT ![j] = Fail(@, ErrorText(outcome.exc))]
            /\ pc' = [pc EXCEPT ![j] = "done"]
            /\ UNCHANGED ctx
    /\ running' = AfterStep(j, pc'[j])
    /\ UNCHANGED <<now, configVars, ret, limiterVars, ares, jobs, created_at, url, llm_raw, cacheVars>>

\* Lines 301-363 after analyze: its RuntimeError is recorded; or progress 70,
\* then the links are enriched (a suspension) when there are any, else the
\* pipeline runs to its end.
PipelineAnalyzed(j, hot_ok, cold_ok) ==
    /\ running = {j}
    /\ pc[j] = "analyzed"
    /\ IF ~ares[j].ok
       THEN /\ job' = [job EXCEPT ![j] = Fail(@, Cut(ares[j].msg, ErrorMax))]
            /\ pc' = [pc EXCEPT ![j] = "done"]
            /\ UNCHANGED <<llm_raw, hot, cold>>
       ELSE /\ IF ares[j].value.type # "dict"
               THEN \* llm_raw.get: AttributeError
                    /\ job' = [job EXCEPT ![j] =
                                 Fail([@ EXCEPT !.progress = 70], ErrorText("AttributeError"))]
                    /\ pc' = [pc EXCEPT ![j] = "done"]
                    /\ UNCHANGED <<llm_raw, hot, cold>>
               ELSE IF DictGet(ares[j].value, "useful_links", JList(<<>>)).items # <<>>
               THEN /\ job' = [job EXCEPT ![j].progress = 70]
                    /\ pc' = [pc EXCEPT ![j] = "enriching"]
                    /\ llm_raw' = [llm_raw EXCEPT ![j] = ares[j].value]
                    /\ UNCHANGED <<hot, cold>>
               ELSE /\ PipelineFinish(j, ares[j].value, <<>>, hot_ok, cold_ok)
                    /\ pc' = [pc EXCEPT ![j] = "done"]
                    /\ UNCHANGED llm_raw
    /\ running' = AfterStep(j, pc'[j])
    \* analyze's frame is gone
    /\ ctx' = [ctx EXCEPT ![j] = NoContext]
    /\ ares' = [ares EXCEPT ![j] = NoResult]
    /\ log' = [log EXCEPT ![j] = <<>>]
    /\ UNCHANGED <<now, configVars, ret, groq_history, gemini_history, usage, attempts,
                   jobs, created_at, url>>

\* What happens to one link in enrich_links: the metadata is fetched
\* ("full"); the fetch fails, which _enrich_single catches ("no_meta");
\* _enrich_single raises and _create_basic_enrichment works ("basic"); both
\* raise ("raise").
LinkOutcomes == {"full", "no_meta", "basic", "raise"}

\* _enrich_single: link.get needs a dict.
EnrichSingle(link, outcome) ==
    IF link.type # "dict" THEN [exc |-> "AttributeError", value |-> NONE]
    ELSE IF outcome \in {"basic", "raise"} THEN [exc |-> "Exception", value |-> NONE]
    ELSE [exc |-> NONE,
          value |-> JDict([url |-> DictGet(link, "url", ""),
                           title |-> IF outcome = "full" THEN "t" ELSE NONE,
                           relevance_score |-> 50])]

\* _create_basic_enrichment, called on the link whose task raised; before it
\* the warning is logged with links[i].get('url'), which needs a dict too.
CreateBasicEnrichment(link, outcome) ==
    IF link.type # "dict" THEN [exc |-> "AttributeError", value |-> NONE]
    ELSE IF outcome = "raise" THEN [exc |-> "Exception", value |-> NONE]
    ELSE [exc |-> NONE,
          value |-> JDict([url |-> DictGet(link, "url", ""), title |-> NONE,
                           relevance_score |-> 30])]

\* sorted(enriched, key=relevance_score, reverse=True): stable, descending.
RECURSIVE SortByRelevance(_)
SortByRelevance(seq) ==
    IF seq = <<>> THEN <<>>
    ELSE LET best == CHOOSE i \in 1..Len(seq) :
                        \A k \in 1..Len(seq) :
                           \/ seq[k].items.relevance_score < seq[i].items.relevance_score
                           \/ seq[k].items.relevance_score = seq[i].items.relevance_score /\ i <= k
         IN <<seq[best]>> \o SortByRelevance([k \in 1..(Len(seq) - 1) |->
                                                 IF k < best THEN seq[k] ELSE seq[k + 1]])

\* enrich_links: every link is enriched, or given its basic record when its
\* task raised; the records are returned sorted; an exception outside the
\* tasks leaves the function.
EnrichLinks(links, outcomes) ==
    LET one(i) == IF EnrichSingle(links[i], outcomes[i]).exc = NONE
                  THEN EnrichSingle(links[i], outcomes[i])
                  ELSE CreateBasicEnrichment(links[i], outcomes[i])
    IN IF \E i \in 1..Len(links) : one(i).exc # NONE
       THEN [exc |-> "Exception", value |-> NONE]
       ELSE [exc |-> NONE, value |-> SortByRelevance([i \in 1..Len(links) |-> one(i).value])]

\* raw_links = llm_raw.get("useful_links", [])
RawLinksOf(raw) == DictGet(raw, "useful_links", JList(<<>>)).items
RawLinks(j) == RawLinksOf(llm_raw[j])

\* Lines 311-363 when outcomes is what happens to each link: the enricher is
\* back with the enriched links, or it raised and the raw links are kept; the
\* pipeline runs to its end.
PipelineEnrichedWith(j, outcomes, hot_ok, cold_ok) ==
    LET enriched == EnrichLinks(RawLinks(j), outcomes) IN
    /\ running = {}
    /\ pc[j] = "enriching"
    /\ PipelineFinish(j, llm_raw[j],
                      IF enriched.exc = NONE THEN enriched.value ELSE RawLinks(j),
                      hot_ok, cold_ok)
    /\ pc' = [pc EXCEPT ![j] = "done"]
    /\ running' = AfterStep(j, pc'[j])
    /\ llm_raw' = [llm_raw EXCEPT ![j] = NONE]
    /\ UNCHANGED <<now, configVars, ret, limiterVars, ctx, ares, jobs, created_at, url>>

\* Lines 311-363, whatever happens to the links.
PipelineEnriched(j, hot_ok, cold_ok) ==
    /\ pc[j] = "enriching"
    /\ \E outcomes \in [1..Len(RawLinks(j)) -> LinkOutcomes] :
          PipelineEnrichedWith(j, outcomes, hot_ok, cold_ok)

Pipeline(j) ==
    \/ PipelineStart(j)
    \/ \E outcome \in ExtractOutcomes : PipelineExtracted(j, outcome)
    \/ Analyze(j)
    \/ \E hot_ok, cold_ok \in BOOLEAN : PipelineAnalyzed(j, hot_ok, cold_ok)
    \/ \E hot_ok, cold_ok \in BOOLEAN : PipelineEnriched(j, hot_ok, cold_ok)

Next ==
    \/ \E u \in Urls : \E force_refresh \in BOOLEAN : \E f \in GetFaults :
          PostAnalyze(u, force_refresh, f)
    \/ \E raw \in RequestUrls \ Urls : \E force_refresh \in BOOLEAN :
          PostAnalyze(raw, force_refresh, NoFaults)
    \/ \E id \in JobIds : GetJobStatus(id)
    \/ GetStats
    \/ \E j \in JobIds : Pipeline(j)
    \/ now < MaxClock /\ Tick(1)

Spec == Init /\ [][Next]_vars

\* Two submissions and their pipelines, side by side; the clock stands still
\* and the cache reads of the submissions do not raise.
NextJobs ==
    \/ \E u \in Urls : \E force_refresh \in BOOLEAN :
          SubmitAnalysisIn(AllJobIds, u, force_refresh, NoFaults)
    \/ \E j \in AllJobIds : Pipeline(j)

SpecJobs == Init /\ [][NextJobs]_vars

\* Two submissions and their pipelines, side by side, when no read and no
\* write of the cache raises; the clock stands still.
NextRefresh ==
    \/ \E u \in Urls : \E force_refresh \in BOOLEAN :
          SubmitAnalysisIn(AllJobIds, u, force_refresh, NoFaults)
    \/ \E j \in AllJobIds :
          \/ PipelineStart(j)
          \/ \E outcome \in ExtractOutcomes : PipelineExtracted(j, outcome)
          \/ Analyze(j)
          \/ PipelineAnalyzed(j, TRUE, TRUE)
          \/ PipelineEnriched(j, TRUE, TRUE)

SpecRefresh == Init /\ [][NextRefresh]_vars

\* Submissions and their pipelines under the event loop's scheduling.
NextLive ==
    \/ \E u \in Urls : \E force_refresh \in BOOLEAN :
          SubmitAnalysis(u, force_refresh, NoFaults)
    \/ \E j \in JobIds : Pipeline(j)

\* The steps of task j that the event loop, the extractor and the enricher
\* bring about: the loop runs every task that is ready, the extractor and
\* the enricher's fetches come back (or time out: link_enricher.py 131).
\* The return of a provider call is not among them: _invoke_groq and
\* _invoke_gemini await asyncio.to_thread(...) with no timeout, and the call
\* is back only when the provider's client returns or raises.
Scheduled(j) ==
    \/ PipelineStart(j)
    \/ \E outcome \in ExtractOutcomes : PipelineExtracted(j, outcome)
    \/ AnalyzeCanUseGroq(j)
    \/ AnalyzeRecordGroq(j)
    \/ AnalyzeCanUseGemini(j)
    \/ AnalyzeRecordGemini(j)
    \/ \E hot_ok, cold_ok \in BOOLEAN : PipelineAnalyzed(j, hot_ok, cold_ok)
    \/ \E hot_ok, cold_ok \in BOOLEAN : PipelineEnriched(j, hot_ok, cold_ok)

SpecLive == Init /\ [][NextLive]_vars /\ \A j \in JobIds : WF_vars(Scheduled(j))

\* The program when no read and no write of the cache raises.
NextNoFaults ==
    \/ \E raw \in RequestUrls : \E force_refresh \in BOOLEAN :
          PostAnalyze(raw, force_refresh, NoFaults)
    \/ \E id \in JobIds : GetJobStatus(id)
    \/ GetStats
    \/ \E j \in JobIds :
          \/ PipelineStart(j)
          \/ \E outcome \in ExtractOutcomes : PipelineExtracted(j, outcome)
          \/ Analyze(j)
          \/ PipelineAnalyzed(j, TRUE, TRUE)
          \/ PipelineEnriched(j, TRUE, TRUE)
    \/ now < MaxClock /\ Tick(1)

SpecNoFaults == Init /\ [][NextNoFaults]_vars

\* --------------------------------------- the cache called on its own

\* URLs given to the cache: two that share a key, and one more.
CacheUrls == {<<"h">>, <<" ", "H", "/">>}

\* Results given to save, as the pipeline builds them.
Results ==
    {BuildResult(JsonLoads("full").value, <<>>),
     BuildResult(JsonLoads("links").value,
                 EnrichLinks(RawLinksOf(JsonLoads("links").value), <<"no_meta">>).value)}

\* What no method of the cache touches.
cacheFrame == <<running, pc, configVars, limiterVars, ctx, ares, storeVars, llm_raw>>

\* await cache_manager.get(url)
CacheGetCall(u, f) ==
    /\ CountBelowMax(u)
    /\ CacheGetEffect(u, f)
    /\ ret' = [op |-> "get", url |-> u, faults |-> f, value |-> CacheGet(u, f)]
    /\ UNCHANGED <<now, cacheFrame>>

\* await cache_manager.save(url, analysis)
CacheSaveCall(u, analysis, hot_ok, cold_ok) ==
    /\ CountBelowMax(u)
    /\ CacheSave(u, analysis, hot_ok, cold_ok)
    /\ ret' = [op |-> "save", url |-> u, faults |-> <<~hot_ok, ~cold_ok>>,
               value |-> Some(analysis)]
    /\ UNCHANGED <<now, cacheFrame>>

\* await cache_manager.invalidate(url)
CacheInvalidateCall(u, hot_ok, cold_ok) ==
    /\ CacheInvalidate(u, hot_ok, cold_ok)
    /\ ret' = [op |-> "invalidate", url |-> u, faults |-> <<~hot_ok, ~cold_ok>>,
               value |-> Null]
    /\ UNCHANGED <<now, cacheFrame>>

\* The clock of SpecCache stops just before and at each multiple of the hot
\* TTL.
CacheTick ==
    /\ now < (MaxClock - 1) * HotCacheTtl
    /\ Tick(IF now % HotCacheTtl = 0 THEN HotCacheTtl - 1 ELSE 1)

NextCache ==
    \/ \E u \in CacheUrls : \E f \in GetFaults : CacheGetCall(u, f)
    \/ \E u \in CacheUrls : \E analysis \in Results : \E hot_ok, cold_ok \in BOOLEAN :
          CacheSaveCall(u, analysis, hot_ok, cold_ok)
    \/ \E u \in CacheUrls : \E hot_ok, cold_ok \in BOOLEAN :
          CacheInvalidateCall(u, hot_ok, cold_ok)
    \/ CacheTick

\* The cache does not depend on which providers are configured.
InitCache == Init /\ groq_client /\ gemini_configured

SpecCache == InitCache /\ [][NextCache]_vars

\* ------------------------------------------------- claims on the jobs
\* (checked under Spec)

\* The record a poll of id is answered with.
Polled(id) == GetJobStatusAnswer(id).body[1]

\* C1: in every state a poll can observe, a job's result is non-null exactly
\* when its status is completed, and its error is non-null exactly when its
\* status is failed.
C1_ResultIffCompleted ==
    \A id \in JobIds :
        GetJobStatusAnswer(id).code = 200 =>
            /\ Polled(id).result # Null <=> Polled(id).status = "completed"
            /\ Polled(id).error # Null <=> Polled(id).status = "failed"

\* C1 witness: a poll finds a job completed, with its result and no error.
C1_Witness ==
    \E id \in JobIds :
        /\ running = {}
        /\ GetJobStatusAnswer(id).code = 200
        /\ Polled(id).status = "completed"
        /\ Polled(id).result # Null /\ Polled(id).error = Null

\* C2: for every interleaving of the pipeline's stages with polls, the
\* progress a poll of a job returns is never below the progress an earlier
\* poll of that job returned: from one state to the next the progress a poll
\* would return does not decrease.
C2_ProgressNeverDecreases ==
    [][\A id \in JobIds :
          (GetJobStatusAnswer(id).code = 200 /\ GetJobStatusAnswer(id)'.code = 200) =>
              Polled(id)'.progress >= Polled(id).progress]_vars

\* C2 witness: a poll finds a job failed after its progress had reached 85.
C2_Witness ==
    \E id \in JobIds :
        /\ running = {}
        /\ GetJobStatusAnswer(id).code = 200
        /\ Polled(id).status = "failed" /\ Polled(id).progress = 85

\* C3: a poll of a record whose creation time is older than the TTL is
\* answered not-found, whether or not a sweep has run since it expired.
C3_ExpiredIsNotFound ==
    \A id \in JobIds :
        (running = {} /\ id \in DOMAIN created_at /\ created_at[id] < now - JobTtl) =>
            GetJobStatusAnswer(id).code = 404

\* The errors of a failed extraction, and of provider exhaustion.
ExtractionErrors == {ErrorText(exc) : exc \in ExtractExceptions}
ExhaustionErrors == {Cut(AllFailed, ErrorMax), NoLLM}

\* C10: a job is failed only by a failed extraction or by provider
\* exhaustion; once analyze has returned content (the job's progress is then
\* 70 or more), the job is not failed.
C10_FailsOnlyWithoutContent ==
    \A id \in JobIds :
        (pc[id] # "idle" /\ job[id].status = "failed") =>
            /\ job[id].error[1] \in ExtractionErrors \cup ExhaustionErrors
            /\ job[id].progress < 70

\* C11: when a write of the cache save fails (hot, cold or both), the
\* pipeline that reached the save still completes its job: status completed,
\* progress 100, the result attached.
C11_SaveFailureDoesNotFailJob ==
    [][\A j \in JobIds : \A hot_ok, cold_ok \in BOOLEAN :
          (/\ ~(hot_ok /\ cold_ok)
           /\ PipelineAnalyzed(j, hot_ok, cold_ok) \/ PipelineEnriched(j, hot_ok, cold_ok)
           /\ job'[j].progress >= 95)
          => /\ job'[j].status = "completed" /\ job'[j].progress = 100
             /\ job'[j].result # Null /\ job'[j].error = Null]_vars

\* C11 witness: a job is completed with its result and neither tier of the
\* cache has an entry for its URL.
C11_Witness ==
    \E id \in JobIds :
        /\ pc[id] = "done" /\ job[id].status = "completed" /\ job[id].result # Null
        /\ HashUrl(url[id]) \notin DOMAIN hot \cup DOMAIN cold

\* C12: when the enrichment of a link fails, or that of the whole batch, the
\* job does not fail: the pipeline goes on to the cache write and the job is
\* completed, with the basic record of a failed link, or with the links as
\* the provider gave them when the batch failed.
C12_EnrichmentFailureDoesNotFailJob ==
    [][\A j \in JobIds : \A hot_ok, cold_ok \in BOOLEAN :
          pc[j] = "enriching" =>
             \A outcomes \in [1..Len(RawLinks(j)) -> LinkOutcomes] :
                (/\ PipelineEnrichedWith(j, outcomes, hot_ok, cold_ok)
                 /\ \E i \in 1..Len(RawLinks(j)) :
                       EnrichSingle(RawLinks(j)[i], outcomes[i]).exc # NONE)
                => /\ job'[j].status = "completed" /\ job'[j].progress = 100
                   /\ job'[j].result # Null
                   /\ job'[j].result[1].useful_links =
                         IF EnrichLinks(RawLinks(j), outcomes).exc # NONE THEN RawLinks(j)
                         ELSE EnrichLinks(RawLinks(j), outcomes).value]_vars

\* C17: a submission without force_refresh whose URL the cache has a result
\* for returns a descriptor that is completed, at progress 100, with the
\* cached result and the job id of the cache; no job is created and no
\* pipeline is started: the job store and the rate limiter stay as they are.
C17_CacheHitCreatesNoJob ==
    [][\A f \in GetFaults :
          (/\ ret'.op = "submit"
           /\ UNCHANGED <<now, running>>
           /\ SubmitAnalysis(ret'.url, FALSE, f)
           /\ CacheGet(ret'.url, f) # Null)
          => /\ ret'.job_id = CacheJobId
             /\ ret'.value = [status |-> "completed", progress |-> 100,
                              result |-> CacheGet(ret'.url, f), error |-> Null]
             /\ UNCHANGED <<jobs, created_at, job, url, pc, running>>
             /\ UNCHANGED <<groq_history, gemini_history, usage, attempts>>]_vars

\* C17 witness: a submission has been answered from the cache while the job
\* store holds a job that has expired.
C17_Witness ==
    /\ ret.op = "submit" /\ ret.job_id = CacheJobId
    /\ ret.value.status = "completed" /\ ret.value.result # Null
    /\ jobs \cap Expired # {}

\* ----------------------------------- claims on the jobs without faults
\* (checked under SpecNoFaults)

\* A job of URL u has run its pipeline to completion.
CompletedFor(u) ==
    {id \in JobIds : pc[id] = "done" /\ job[id].status = "completed" /\ url[id] = u}

\* C18: a submission without force_refresh of a URL the cache has nothing for
\* creates a job that is queued at progress 0; once a job of the URL has run
\* to completed at progress 100, every submission of that URL without
\* force_refresh returns a completed descriptor with the job id of the cache
\* and the result of the completed job, which the cache holds from the
\* completion on.
C18_CompletedThenCacheHit ==
    [][/\ \A u \in Urls :
             CompletedFor(u) # {} =>
                CacheGet(u, NoFaults) \in {job[id].result : id \in CompletedFor(u)}
       /\ (/\ ret'.op = "submit"
           /\ SubmitAnalysis(ret'.url, FALSE, NoFaults))
          =>
          LET u == ret'.url IN
          /\ HashUrl(u) \notin DOMAIN hot \cup DOMAIN cold =>
                /\ ret'.job_id \in JobIds \ jobs
                /\ ret'.value = [status |-> "queued", progress |-> 0,
                                 result |-> Null, error |-> Null]
                /\ ret'.job_id \in jobs' /\ job'[ret'.job_id] = ret'.value
                /\ pc'[ret'.job_id] = "created"
          /\ CompletedFor(u) # {} =>
                /\ \A id \in CompletedFor(u) : job[id].progress = 100
                /\ ret'.job_id = CacheJobId
                /\ ret'.value.status = "completed" /\ ret'.value.progress = 100
                /\ \E id \in CompletedFor(u) : ret'.value.result = job[id].result]_vars

\* C18 witness: after the job of a URL has completed and its record has left
\* the job store, a submission of the URL has been answered from the cache with
\* the job's result.
C18_Witness ==
    /\ ret.op = "submit" /\ ret.job_id = CacheJobId
    /\ jobs = {}
    /\ \E id \in CompletedFor(ret.url) : ret.value.result = job[id].result

\* ---------------------------------------------- claims on the job store
\* (checked under SpecStore)

\* C19: update on an id that is not in the tracker (never created, removed,
\* swept or cleared) returns false and inserts nothing, the tracked ids and
\* their records staying as they are; update on a tracked id returns true and
\* replaces the record.
C19_UpdateNeverInserts ==
    [][\A id \in JobIds : \A rec \in StatusRecords :
          JobStoreUpdate(id, rec) =>
             /\ ret'.value = (id \in jobs)
             /\ jobs' = jobs /\ created_at' = created_at
             /\ id \in jobs => JobStoreGet(id)' = Some(rec)
             /\ id \notin jobs => JobStoreGet(id)' = Null]_vars

\* C19 witness: after some time, update has just returned false for an id
\* the tracker does not hold, and the tracker still does not hold it.
C19_Witness ==
    /\ ret.op = "update" /\ ~ret.value
    /\ ret.id \notin jobs /\ JobStoreGet(ret.id) = Null
    /\ now > 0

\* C20: create, update, remove and the statistics each first remove every
\* record older than the TTL, so none is left after them; in particular
\* update on a record whose TTL has elapsed returns false.
C20_SweepBeforeEveryOperation ==
    [][\A id \in JobIds : \A rec \in StatusRecords :
          /\ (JobStoreAdd(id, rec) \/ JobStoreUpdate(id, rec) \/ JobStoreRemove(id)
                 \/ JobStoreStats) => jobs' \cap Expired = {}
          /\ (JobStoreUpdate(id, rec) /\ id \in Expired) => ret'.value = FALSE]_vars

\* -------------------------------------------------- claims on the cache
\* (checked under SpecCache)

\* C13: a save of R under a URL whose two writes worked, followed by a get of
\* that URL whose reads work, with no call in between, returns a result equal
\* to R, however much time has passed: from the hot tier while its entry is
\* live, from the cold tier once it has expired.
C13_SaveThenGet ==
    [][(/\ ret.op = "save" /\ ret.faults = <<FALSE, FALSE>>
        /\ ret'.op = "get" /\ ret'.url = ret.url
        /\ ~ret'.faults.hot_read /\ ~ret'.faults.cold_read
        /\ CacheGetCall(ret'.url, ret'.faults))
       => ret'.value = ret.value]_vars

\* C13 witness: a get has returned a result at a time when every hot entry
\* had expired, and left the hot tier without the key (its write back
\* failed): the result came from the cold tier.
C13_Witness ==
    /\ ret.op = "get" /\ ret.value \in {Some(r) : r \in Results}
    /\ ~ret.faults.hot_read /\ ret.faults.rehydrate
    /\ now >= HotCacheTtl
    /\ HashUrl(ret.url) \notin DOMAIN hot

\* C15: get returns the hot value when there is one and it has not expired.
\* Otherwise, when the cold tier has the key, get returns the cold value,
\* writes it to the hot tier with the current time and adds one to the row's
\* access counter; when the write back or the increment fails, the value
\* returned is the same and the read does not fail.
C15_ReadThrough ==
    [][(ret'.op = "get" /\ CacheGetCall(ret'.url, ret'.faults) /\ ~ret'.faults.hot_read) =>
             LET key == HashUrl(ret'.url)
                 f == ret'.faults
             IN
             IF key \in DOMAIN hot /\ now - hot[key].ts < HotCacheTtl
             THEN /\ ret'.value = Some(JsonLoadsAnalysis(hot[key].value))
                  /\ hot' = hot /\ cold' = cold
             ELSE (key \in DOMAIN cold /\ ~f.cold_read) =>
                  /\ ret'.value = Some(JsonLoadsAnalysis(cold[key].analysis))
                  /\ cold'[key].analysis = cold[key].analysis
                  /\ ~f.rehydrate =>
                        /\ key \in DOMAIN hot' /\ hot'[key].ts = now
                        /\ JsonLoadsAnalysis(hot'[key].value) = ret'.value[1]
                  /\ ~f.count => cold'[key].access_count = cold[key].access_count + 1]_vars

\* C15 witness: a get whose write back and whose increment both failed has
\* returned a result from the cold tier.
C15_Witness ==
    /\ ret.op = "get" /\ ret.value # Null
    /\ ret.faults.rehydrate /\ ret.faults.count /\ ~ret.faults.cold_read
    /\ HashUrl(ret.url) \notin DOMAIN hot
    /\ cold[HashUrl(ret.url)].access_count = 1

\* C16: a save whose writes work leaves the payload in both tiers; on a key
\* the cold tier already has, the payload is replaced and the access counter
\* goes up by one; and no step other than a removal of the row makes the
\* access counter of a key smaller.
C16_CounterNeverDecreases ==
    [][/\ \A key \in DOMAIN cold \cap DOMAIN cold' :
             cold'[key].access_count >= cold[key].access_count
       /\ (ret'.op = "save" /\ CacheSaveCall(ret'.url, ret'.value[1], TRUE, TRUE)) =>
                LET key == HashUrl(ret'.url)
                    analysis == ret'.value[1]
                IN
                /\ hot'[key] = [ts |-> now, value |-> JsonDumps(analysis, FALSE)]
                /\ cold'[key].analysis = JsonDumps(analysis, FALSE)
                /\ JsonLoadsAnalysis(cold'[key].analysis) = analysis
                /\ key \in DOMAIN cold =>
                      cold'[key].access_count = cold[key].access_count + 1]_vars

\* C16 witness: a save has just replaced the payload of a row that had been
\* saved and read before.
C16_Witness ==
    /\ ret.op = "save" /\ ret.faults = <<FALSE, FALSE>>
    /\ HashUrl(ret.url) \in DOMAIN cold
    /\ cold[HashUrl(ret.url)].access_count = MaxCount
    /\ cold[HashUrl(ret.url)].analysis = JsonDumps(ret.value[1], FALSE)

\* ---------------------------------------------- claims on the cache key
\* (checked under SpecKey)

\* C14: the cache key is a function of the URL after trimming whitespace,
\* lower-casing and stripping a trailing slash; the normalization is
\* idempotent, and a URL gets the same key as the URLs that differ from it
\* only in surrounding whitespace, in letter case or in one trailing slash.
C14_KeyNormalization ==
    ret.op = "_hash_url" =>
        LET u == ret.url IN
        /\ ret.value = Sha256(Normalize(u))
        /\ Normalize(Normalize(u)) = Normalize(u)
        /\ HashUrl(<<" ">> \o u \o <<" ">>) = ret.value
        /\ HashUrl(Lower(u)) = ret.value
        /\ HashUrl(u \o <<"/">>) = ret.value

\* ------------------------------------------- claims on the rate limiter
\* (checked under SpecRL)

Indices(seq) == 1..Len(seq)
Has(seq, e) == \E i \in Indices(seq) : seq[i] = e
HasOp(seq, op, p) == \E i \in Indices(seq) : seq[i].op = op /\ seq[i].p = p
Count(seq, op, p) == Cardinality({i \in Indices(seq) : seq[i].op = op /\ seq[i].p = p})

\* The attempts on p made in the window of width WindowSeconds that starts at
\* the i-th of them.
AttemptsInWindowFrom(p, i) ==
    {k \in Indices(attempts[p]) :
        /\ attempts[p][k] >= attempts[p][i]
        /\ attempts[p][k] <= attempts[p][i] + WindowSeconds}

AdmitStep(t, p) ==
    /\ Len(log'[t]) = Len(log[t]) + 1
    /\ log'[t][Len(log'[t])].op = "admit"
    /\ log'[t][Len(log'[t])].p = p
AdmitAnswer(t) == log'[t][Len(log'[t])].ok

\* The usages of p recorded no more than `age` seconds ago.
RecordedWithin(p, age) == {k \in Indices(usage[p]) : now - usage[p][k] <= age}

C6_AdmitRecordCall ==
    /\ \A t \in Callers : \A i \in Indices(log[t]) :
          log[t][i].op = "call" =>
             /\ i >= 3
             /\ log[t][i - 1] = Event("record", log[t][i].p, TRUE, NONE)
             /\ log[t][i - 2] = Event("admit", log[t][i].p, TRUE, NONE)
    /\ \A t \in Callers : \A p \in Providers :
          Count(log[t], "record", p) = Count(log[t], "call", p)
    /\ \A p \in Providers : Len(usage[p]) = Len(attempts[p])

\* C6 witness: analyze is over after a failed primary call and a secondary
\* call, one usage recorded for each.
C6_Witness ==
    \E t \in Callers :
        /\ pc[t] = "analyzed"
        /\ Has(log[t], Event("done", "groq", FALSE, "raise"))
        /\ Count(log[t], "record", "groq") = 1
        /\ Count(log[t], "record", "gemini") = 1
        /\ HasOp(log[t], "done", "gemini")

PrimaryReturned(t) == \E i \in Indices(log[t]) :
    log[t][i].op = "done" /\ log[t][i].p = "groq" /\ log[t][i].ok

\* C7: when the primary call failed or the primary was not attempted, and the
\* secondary is configured, analyze asks the limiter for the secondary; when
\* admitted it calls the secondary; and when _invoke_gemini returns, analyze
\* returns its parsed result.
C7_FallbackToSecondary ==
    \A t \in Callers :
        (pc[t] = "analyzed" /\ ~PrimaryReturned(t) /\ gemini_configured) =>
            /\ HasOp(log[t], "admit", "gemini")
            /\ Has(log[t], Event("admit", "gemini", TRUE, NONE))
                  => HasOp(log[t], "call", "gemini")
            /\ \A i \in Indices(log[t]) :
                  (log[t][i].op = "done" /\ log[t][i].p = "gemini" /\ log[t][i].ok) =>
                      ares[t] = AnalyzeReturn(ParseJsonResponse(log[t][i].arg).value)

\* C7 witness: the primary call raised and analyze returned the secondary's
\* result.
C7_Witness ==
    \E t \in Callers :
        /\ pc[t] = "analyzed"
        /\ Has(log[t], Event("done", "groq", FALSE, "raise"))
        /\ Has(log[t], Event("done", "gemini", TRUE, "full"))
        /\ ares[t].ok

\* C8: when analyze fails, "all providers failed" is raised whenever at least
\* one provider call was attempted, and "no provider available" only when no
\* provider call was attempted at all.
C8_ErrorTellsAttempted ==
    \A t \in Callers :
        (pc[t] = "analyzed" /\ ~ares[t].ok) =>
            LET attempted == \E p \in Providers : HasOp(log[t], "call", p) IN
            /\ attempted => ares[t].msg = AllFailed
            /\ ares[t].msg = NoLLM => ~attempted

\* A provider call of task t returned a response text.
GotResponse(t) == \E i \in Indices(log[t]) :
    log[t][i].op = "done" /\ log[t][i].arg \in Texts

\* C9: whenever a provider call returned a response text, of any content,
\* analyze returns a result and does not raise.
C9_ResponseNeverRaises ==
    \A t \in Callers :
        (pc[t] = "analyzed" /\ GotResponse(t)) => ares[t].ok

\* ---------------------------------- claims on the limiter (SpecLimiter)

Other(p) == IF p = "groq" THEN "gemini" ELSE "groq"

\* What can_use_<p> would answer, and what get_stats would report for p, on a
\* history at time t.
Admission(history, p, t) == CanUse(CleanHistory(history, t), Limit(p))
Used(history, t) == Len(CleanHistory(history, t))
Available(history, p, t) == Limit(p) - Used(history, t)

\* C21: the two providers' windows are independent: recording a usage on one
\* provider, up to and past its limit, changes neither the admission result,
\* nor the used count, nor the available count of the other provider.
C21_WindowsIndependent ==
    [][\A p \in Providers :
          (ret'.op = "record" /\ ret'.p = p /\ RecordUsage(p)) =>
              LET q == Other(p) IN
              /\ Admission(History(q)', q, now') = Admission(History(q), q, now)
              /\ Used(History(q)', now') = Used(History(q), now)
              /\ Available(History(q)', q, now') = Available(History(q), q, now)]_vars

\* C21 witness: groq was recorded past its limit, and gemini, never used, is
\* still admitted.
C21_Witness ==
    /\ ret.op = "record" /\ ret.p = "groq"
    /\ Len(groq_history) > GroqLimit
    /\ Used(gemini_history, now) = 0
    /\ Admission(gemini_history, "gemini", now)

\* ------------------------------------- claims on get_stats (SpecStats)

\* The usages of p recorded so far whose timestamp is still inside the window
\* at time t.
InWindow(p, t) ==
    Cardinality({i \in 1..Len(usage[p]) : usage[p][i] >= t - WindowSeconds})


\* The dictionary of a limiter with used[p] usages counted for p.
StatsFor(used) ==
    [groq_used |-> used["groq"], groq_limit |-> GroqLimit,
     groq_available |-> GroqLimit - used["groq"],
     gemini_used |-> used["gemini"], gemini_limit |-> GeminiLimit,
     gemini_available |-> GeminiLimit - used["gemini"]]

\* C26 as stated: get_stats reports, per provider, used = the number of
\* recorded timestamps still inside the window, limit = the configured limit
\* and available = limit - used, after any sequence of record calls and clock
\* advances.
C26_AsStated ==
    [][(ret'.op = "get_stats" /\ LimiterGetStats) =>
          ret'.value = StatsFor([p \in Providers |-> InWindow(p, now)])]_vars

\* C26: get_stats reports, per provider, used = the number of recorded
\* timestamps still inside the window, or the capacity of the provider's
\* deque when more were recorded, limit = the configured limit and
\* available = limit - used, which is negative past the limit.
C26_StatsCountWindow ==
    [][(ret'.op = "get_stats" /\ LimiterGetStats) =>
          ret'.value = StatsFor([p \in Providers |->
                                    Min(InWindow(p, now), MaxLen(p))])]_vars

\* C26 witness: the clock has advanced, a usage of groq has left the window,
\* and get_stats reports more usages of gemini than its limit.
C26_Witness ==
    /\ ret.op = "get_stats"
    /\ now > 0
    /\ ret.value.groq_used < Len(usage["groq"])
    /\ ret.value.gemini_used > GeminiLimit
    /\ ret.value.gemini_available < 0

\* ------------------------------------- claims on wait_for (SpecLimiter)

\* C27: wait_for(provider, timeout) returns true whenever the provider has
\* capacity at the moment of the call, for every timeout value, 0 included
\* (here: whenever it returns at the instant it was called).
C27_WaitReturnsTrueWhenFree ==
    [][\A t \in Waiters :
          (pc[t] = "wait_check" /\ pc'[t] = "done"
              /\ ret'.op = "wait_for" /\ ret'.free /\ ret'.start = now') =>
              ret'.value]_vars

\* ----------------------------------------- claims on submissions (Spec)

\* The request's URL fails validation: in the request model, or against the
\* URL patterns of the handler.
FailsValidation(raw) ==
    ~RequestUrl(raw).ok \/ ~ValidateRedditUrl(RequestUrl(raw).value)

\* C22: a submission whose URL fails validation is answered with an error at
\* once and never enters the pipeline: no job record is created, no pipeline
\* task is launched, and the cache is neither read nor written.
C22_InvalidUrlRejected ==
    [][\A raw \in RequestUrls :
          FailsValidation(raw) =>
              \A force_refresh \in BOOLEAN :
                  PostAnalyze(raw, force_refresh, NoFaults) =>
                      /\ ret'.op = "submit_error"
                      /\ UNCHANGED <<jobs, created_at, job, url, pc, running>>
                      /\ UNCHANGED <<hot, cold>>]_vars

\* C22 witness: a submission was refused by the handler's check, and there is
\* no job, no task and nothing in the cache.
C22_Witness ==
    /\ ret.op = "submit_error" /\ ret.code = 400
    /\ jobs = {}
    /\ \A id \in JobIds : pc[id] = "idle"
    /\ hot = <<>> /\ cold = <<>>

\* --------------------------------- claims on two pipelines (SpecJobs)

\* C23: a failure inside one job's pipeline is caught at the pipeline's
\* boundary and recorded in that job's record only: the task of a job that
\* stops has left its job completed or failed, a failed job has an error,
\* and the step that fails a job leaves the record of every other job, and
\* its place in the store and its task, as they were.
C23_FailureStaysInItsJob ==
    [][\A j \in AllJobIds :
          /\ (pc[j] # "done" /\ pc'[j] = "done") =>
                /\ job'[j].status \in {"completed", "failed"}
                /\ job'[j].status = "failed" => job'[j].error # Null
          /\ (job[j].status # "failed" /\ job'[j].status = "failed") =>
                \A other \in AllJobIds \ {j} :
                    /\ job'[other] = job[other]
                    /\ pc'[other] = pc[other]
                    /\ (other \in jobs') = (other \in jobs)]_vars

\* C23 witness: one job has failed and the other has completed.
C23_Witness ==
    \E j, other \in AllJobIds :
        /\ job[j].status = "failed"
        /\ job[other].status = "completed"
        /\ job[other].result # Null

\* ------------------------------------- claims on progress (SpecLive)

\* C24: every job whose pipeline was launched eventually reaches completed
\* or failed, even when a provider call never responds.
C24_LaunchedJobEnds ==
    \A j \in JobIds :
        (pc[j] = "created") ~> (job[j].status \in {"completed", "failed"})

\* ------------------------------------- claims on a job's error (Spec)

\* C25: whenever a job's status is failed, its error is a non-empty string
\* of at most 200 characters, whatever exception ended the pipeline.
C25_ErrorBounded ==
    \A id \in JobIds :
        job[id].status = "failed" =>
            /\ job[id].error # Null
            /\ Len(job[id].error[1]) >= 1
            /\ Len(job[id].error[1]) <= ErrorMax

\* C25 witness: a job failed by an exception whose text was longer than an
\* error may be; its error has exactly 200 characters.
C25_Witness ==
    \E id \in JobIds :
        /\ job[id].status = "failed"
        /\ job[id].error = Some(Cut(AllFailed, ErrorMax))
        /\ Len(job[id].error[1]) = ErrorMax
        /\ Len(AllFailed) > ErrorMax

\* C28: a response that is a fenced code block holding a JSON object, valid
\* but for a trailing comma before a closing brace, parses to the same content
\* as the block holding that object without the comma.
\* (checked under SpecParse)
C28_FencedTrailingCommaRecovered ==
    \A o \in Objects : \A t \in TrailingCommas(o) :
        (ret.op = "_parse_json_response" /\ ret.text = Fenced(t))
            => /\ ret.result.exc = NONE
               /\ ret.result.value = ParseJsonResponse(Fenced(o)).value

\* Step k of the cascade does not produce a value from the text: its pattern
\* does not match, or json.loads does not accept what it matched.
StepFails(text, k) ==
    Candidate(text, k) = Null \/ JsonLoads(Candidate(text, k)[1]).exc # NONE

\* The position of a step in the cascade, the fallback last.
StepIndex(name) ==
    IF name = "fallback" THEN Len(StepNames) + 1
    ELSE CHOOSE k \in 1..Len(StepNames) : StepNames[k] = name

\* The structure the claim describes for a raw text.
DescribedFallback(text) ==
    [summary_post |-> IF text = "" THEN ParseNotice
                      ELSE SubSeq(text, 1, Min(Len(text), PostChars)),
     summary_comments |-> SubSeq(text, PostChars + 1, Min(Len(text), CommentsEnd)),
     sentiment_post |-> JDict([label |-> "Neutro", score |-> 50, details |-> ParseDetails]),
     sentiment_comments |-> JDict([label |-> "Neutro", score |-> 50, details |-> ParseDetails]),
     consensus |-> NoConsensus, key_controversies |-> JList(<<>>),
     useful_links |-> JList(<<>>)]

\* C29: on a response on which every step of the cascade fails the result is
\* the fallback structure (the first 400 characters of the text or the notice,
\* characters 400 to 1000, neutral sentiments of score 0.5, no consensus,
\* empty lists); the steps run in their fixed order and a step runs only when
\* every step before it has failed.
\* (checked under SpecParse)
C29_AllStepsFailGivesFallback ==
    ret.op = "_parse_json_response" =>
        /\ \A i \in 1..Len(ret.result.steps) :
              /\ \A j \in 1..(i - 1) :
                    StepIndex(ret.result.steps[j]) < StepIndex(ret.result.steps[i])
              /\ \A k \in 1..(StepIndex(ret.result.steps[i]) - 1) : StepFails(ret.text, k)
        /\ (\A k \in 1..Len(StepNames) : StepFails(ret.text, k))
              => /\ ret.result.exc = NONE
                 /\ ret.result.value = JDict(DescribedFallback(ret.text))

\* ------------------------------------------- claims on a forced refresh
\* (checked under SpecRefresh)

\* C30: a submission with force_refresh set does not answer from the cache,
\* whether the cache has a result for the URL or not: the cache is not
\* touched, a new job is created, queued at progress 0, and its pipeline is
\* started; and when a pipeline completes its job, the cache returns that
\* job's result for the URL.
C30_ForceRefreshRunsAnew ==
    [][/\ (/\ ret'.op = "submit"
           /\ UNCHANGED <<now, running>>
           /\ SubmitAnalysisIn(AllJobIds, ret'.url, TRUE, NoFaults))
          => /\ ret'.job_id # CacheJobId
             /\ ret'.job_id \in AllJobIds \ jobs
             /\ pc[ret'.job_id] = "idle" /\ pc'[ret'.job_id] = "created"
             /\ ret'.value = [status |-> "queued", progress |-> 0,
                              result |-> Null, error |-> Null]
             /\ ret'.job_id \in jobs' /\ job'[ret'.job_id] = ret'.value
             /\ UNCHANGED <<hot, cold>>
       /\ \A j \in AllJobIds :
             (job[j].status # "completed" /\ job'[j].status = "completed")
                => CacheGet(url[j], NoFaults)' = job'[j].result]_vars

\* C30 witness: the cache has a result for the URL of the last submission,
\* and that submission has created the second job, queued with its pipeline
\* started, while the first job is completed.
C30_Witness ==
    /\ ret.op = "submit" /\ ret.job_id = 2
    /\ HotGet(HashUrl(ret.url)) # Null
    /\ job[1].status = "completed"
    /\ job[2].status = "queued" /\ pc[2] = "created"

\* ------------------------------------------- claims on a job's course
\* (checked under Spec)

\* The progress values of a job that is processing.
Milestones == {10, 35, 70, 85, 95}

\* Status and progress of a record go together.
Paired(rec) ==
    /\ rec.status = "queued" => rec.progress = 0
    /\ rec.status = "completed" => rec.progress = 100
    /\ rec.status = "processing" => rec.progress \in Milestones

\* C31: a job's status moves from queued to processing and from processing
\* to completed or to failed, and in no other way: a completed or failed job
\* keeps its status, progress, result and error, a queued job does not become
\* completed or failed in one step, and in every state a queued job is at
\* progress 0, a completed job at 100, a processing job at 10, 35, 70, 85 or
\* 95.
C31_StatusCourse ==
    [][\A j \in JobIds :
          /\ job[j].status \in {"completed", "failed"} => job'[j] = job[j]
          /\ job[j].status = "queued" => job'[j].status \in {"queued", "processing"}
          /\ job[j].status = "processing" =>
                job'[j].status \in {"processing", "completed", "failed"}
          /\ job'[j].status \in {"queued", "processing", "completed", "failed"} =>
                job[j].status # "none" \/ job'[j].status = "queued"
          /\ Paired(job[j]) /\ Paired(job'[j])]_vars

\* C31 witness: a job has failed at progress 35, its task has ended and the
\* clock has moved on to its last value since.
C31_Witness ==
    \E j \in JobIds :
        /\ pc[j] = "done" /\ job[j].status = "failed" /\ job[j].progress = 35
        /\ created_at[j] < now /\ now = MaxClock

\* The steps of a pipeline in their order, by the position of its task.
AnalyzePcs == {"analyze", "groq_record", "groq_call", "gemini_check", "gemini_record",
               "gemini_call", "analyzed"}
StepRank(p) ==
    CASE p = "idle" -> 0
      [] p = "created" -> 1
      [] p = "extracting" -> 2
      [] p \in AnalyzePcs -> 3
      [] p = "enriching" -> 4
      [] p = "done" -> 5

\* C32: a pipeline goes through extraction, analysis, enrichment, the cache
\* write and the completion in that order.  Analysis is entered, and a usage
\* or a provider call recorded, only by a job that is processing with its
\* extraction done (progress 35); a failed job's task has ended.  The step
\* that completes a job is the one that writes its result to the cache, and
\* no other step of a pipeline changes the cache, so a job that ends failed
\* has written nothing.
C32_PipelineOrder ==
    [][/\ \A j \in JobIds :
             /\ StepRank(pc'[j]) >= StepRank(pc[j])
             /\ (pc'[j] \in AnalyzePcs /\ pc'[j] # "analyzed") =>
                   job'[j].status = "processing" /\ job'[j].progress = 35
             /\ job[j].status = "failed" => pc[j] = "done" /\ pc'[j] = "done"
             /\ (job[j].status # "completed" /\ job'[j].status = "completed") =>
                   /\ pc[j] \in {"analyzed", "enriching"} /\ pc'[j] = "done"
                   /\ \E hot_ok, cold_ok \in BOOLEAN :
                         CacheSave(url[j], job'[j].result[1], hot_ok, cold_ok)
             /\ (pc'[j] # pc[j] /\ pc[j] # "idle" /\ job'[j].status # "completed") =>
                   UNCHANGED <<hot, cold>>
       /\ (usage' # usage \/ attempts' # attempts) =>
             \E j \in JobIds :
                /\ pc[j] \in AnalyzePcs /\ pc'[j] # pc[j]
                /\ job[j].status = "processing" /\ job[j].progress = 35]_vars

\* C32 witness: a job whose extraction failed has ended, at progress 10, with
\* no usage recorded, no provider called and nothing in the cache.
C32_Witness ==
    \E j \in JobIds :
        /\ pc[j] = "done" /\ job[j].status = "failed" /\ job[j].progress = 10
        /\ usage = [groq |-> <<>>, gemini |-> <<>>]
        /\ attempts = [groq |-> <<>>, gemini |-> <<>>]
        /\ hot = <<>> /\ cold = <<>>

\* ------------------------------------- claims on the token ceiling
\* (checked under SpecRL)

\* The context of t is not below the primary's token ceiling.
OverCeiling(t) == ctx[t].token_count_llama >= GroqMaxTokens

\* C33: with a context whose token estimate is not below the primary's
\* ceiling, analyze does not call the primary and records no usage on it: no
\* step of that analyze changes the primary's history, its recorded usages or
\* its calls, nor asks the limiter about it, and from its entry analyze goes
\* to the check of the secondary.
C33_OverCeilingSkipsPrimary ==
    [][\A t \in Callers :
          (OverCeiling(t) /\ pc'[t] # pc[t]) =>
             /\ groq_history' = groq_history
             /\ usage'["groq"] = usage["groq"]
             /\ attempts'["groq"] = attempts["groq"]
             /\ \A i \in 1..Len(log'[t]) : log'[t][i].p # "groq"
             /\ pc[t] = "analyze" => pc'[t] = "gemini_check"
             /\ pc'[t] \notin {"groq_record", "groq_call"}]_vars

\* C33 witness: the primary is configured and has never been used, and an
\* analyze whose context is at the ceiling is in its call of the secondary.
C33_Witness ==
    \E t \in Callers :
        /\ groq_client /\ OverCeiling(t)
        /\ pc[t] = "gemini_call"
        /\ usage["groq"] = <<>> /\ attempts["groq"] = <<>>
        /\ usage["gemini"] # <<>>

\* ------------------------------------------ claims on the tracker's counts
\* (checked under SpecTracker)

\* The records of the tracker that have not outlived the TTL.
Unexpired == {id \in jobs : created_at[id] >= now - JobTtl}

\* C34: stats returns, after any calls of add, update, remove, cleanup and
\* clear, a total that is the number of unexpired records of the tracker, the
\* number of records it holds after the call, and the sum of the counts of
\* queued, processing, completed and failed; clear returns the number of
\* records it removed and leaves none, and stats on the tracker clear left
\* returns a total of 0.
C34_StatsCounts ==
    [][/\ (ret'.op = "stats" /\ JobStoreStats) =>
             /\ ret'.value.total = Cardinality(Unexpired)
             /\ ret'.value.total = Cardinality(jobs')
             /\ ret'.value.total = ret'.value.queued + ret'.value.processing
                                      + ret'.value.completed + ret'.value.failed
             /\ (ret.op = "clear" => ret'.value.total = 0)
       /\ (ret'.op = "clear" /\ JobStoreClear) =>
             /\ ret'.value = Cardinality(jobs)
             /\ jobs' = {} /\ created_at' = <<>>]_vars

\* C34 witness: stats has counted two records, one processing and one
\* failed, after the clock has moved.
C34_Witness ==
    /\ ret.op = "stats" /\ now > 0
    /\ ret.value.total = 2 /\ ret.value.processing = 1 /\ ret.value.failed = 1

\* ------------------------------------------ claims on the invalidation
\* (checked under SpecCache)

\* The keys neither tier holds.
AbsentKeys == {HashUrl(u) : u \in CacheUrls} \ (DOMAIN hot \cup DOMAIN cold)

\* C35: an invalidate whose two deletes work leaves the key of its URL in
\* neither tier and returns nothing; on a key neither tier holds it changes
\* nothing.  A key in neither tier stays so through every call but a save of
\* that key, and a get of any URL with that key returns no result, whatever
\* reads work.
C35_InvalidateRemoves ==
    [][/\ (/\ ret'.op = "invalidate" /\ ret'.faults = <<FALSE, FALSE>>
           /\ CacheInvalidateCall(ret'.url, TRUE, TRUE)) =>
                /\ HashUrl(ret'.url) \in AbsentKeys'
                /\ ret'.value = Null
                /\ HashUrl(ret'.url) \in AbsentKeys => hot' = hot /\ cold' = cold
       /\ (ret'.op = "get" /\ CacheGetCall(ret'.url, ret'.faults)
             /\ HashUrl(ret'.url) \in AbsentKeys) => ret'.value = Null
       /\ \A key \in AbsentKeys :
             ~(ret'.op = "save" /\ HashUrl(ret'.url) = key) => key \in AbsentKeys']_vars

\* C35 witness: an invalidate of a URL written with a capital and a slash has
\* returned after the hot entries of the first day had expired, and neither
\* tier holds its key.
C35_Witness ==
    /\ ret.op = "invalidate" /\ ret.faults = <<FALSE, FALSE>>
    /\ ret.url = <<" ", "H", "/">>
    /\ now >= HotCacheTtl
    /\ HashUrl(<<"h">>) \in AbsentKeys

\* --------------------------------------------- claims on the swept job
\* (checked under Spec)

\* The jobs that were submitted and whose record the store no longer has.
Swept == {id \in JobIds : pc[id] # "idle" /\ id \notin jobs}

\* C36: a record leaves the store only when its age is over the TTL, and a
\* sweep (of /v1/stats, or of the add of a submission) leaves no such record,
\* whatever its status.  A swept record is never stored again and a poll of
\* its id is answered 404.  Its pipeline, once it has had its first run, goes
\* on as with a stored record: when it completes the job it has written the
\* cache.  A pipeline that has its first run after the sweep ends there,
\* leaving the job and the cache as they are.
C36_SweptJobRunsOn ==
    [][/\ jobs \ jobs' \subseteq Expired
       /\ (\/ GetStats
           \/ /\ ret'.op = "submit" /\ ret'.job_id # CacheJobId
              /\ pc[ret'.job_id] = "idle" /\ pc'[ret'.job_id] = "created")
             => jobs' \cap Expired = {}
       /\ \A id \in Swept :
             /\ id \in Swept'
             /\ GetJobStatusAnswer(id)'.code = 404
             /\ (job[id].status = "processing" /\ job'[id].status = "completed") =>
                   /\ pc'[id] = "done" /\ job'[id].progress = 100
                   /\ \E hot_ok, cold_ok \in BOOLEAN :
                         CacheSave(url[id], job'[id].result[1], hot_ok, cold_ok)
             /\ (pc[id] = "created" /\ pc'[id] # "created") =>
                   /\ pc'[id] = "done" /\ job'[id] = job[id]
                   /\ hot' = hot /\ cold' = cold]_vars

\* C36 witness: the store has swept the record of a job that is processing;
\* its pipeline has since put the progress at 70 and awaits the link enricher.
C36_Witness ==
    \E id \in Swept :
        /\ pc[id] = "enriching" /\ job[id].status = "processing"
        /\ job[id].progress = 70
        /\ created_at = <<>>

\* C36 as stated: the pipeline of every swept job runs on, so that none ends
\* with its job still queued.
C36_AsStated ==
    \A id \in Swept : pc[id] = "done" => job[id].status # "queued"

\* ------------------------------------------ claims on the deque's capacity
\* (checked under SpecCapacity)

\* C37: a history never holds more timestamps than its deque's capacity, and
\* a record made at capacity drops the oldest one.  Under a limit that is not
\* above the capacity, an admission check is refused exactly when the usages
\* recorded inside the window are as many as the limit or more; under a limit
\* above the capacity every admission check is granted.
C37_CapacityBoundsAdmission ==
    [][/\ Len(groq_history') <= GroqMaxLen /\ Len(gemini_history') <= GeminiMaxLen
       /\ \A p \in Providers :
             (ret'.op = "record" /\ ret'.p = p /\ RecordUsage(p)
                 /\ Len(History(p)) = MaxLen(p)) =>
                   History(p)' = Append(Tail(History(p)), now)
       /\ (ret'.op = "can_use" /\ CanUseUnder(ret'.p, ret'.limit)) =>
             IF ret'.limit <= MaxLen(ret'.p)
             THEN ret'.value = (InWindow(ret'.p, now) < ret'.limit)
             ELSE ret'.value = TRUE]_vars

\* C37 witness: gemini's deque is full of timestamps of the window, one more
\* usage than it holds was recorded, and an admission check under a limit one
\* above the capacity has been granted.
C37_Witness ==
    /\ ret.op = "can_use" /\ ret.p = "gemini"
    /\ ret.limit = GeminiMaxLen + 1 /\ ret.value = TRUE
    /\ Len(gemini_history) = GeminiMaxLen
    /\ InWindow("gemini", now) = GeminiMaxLen + 1

\* ------------------------------------- claims on the reads of the limiter
\* (checked under SpecLimiter)

\* The timestamps of history from the k-th on.
From(history, k) == SubSeq(history, k, Len(history))

\* after is history without some of its first timestamps, each of them older
\* than the window at time t.
OnlyEvicted(history, after, t) ==
    \E k \in 1..(Len(history) + 1) :
        /\ after = From(history, k)
        /\ \A i \in 1..(k - 1) : history[i] < t - WindowSeconds

\* C38: a step that records no usage (an admission check, one of wait_for, or
\* get_stats) appends no timestamp: each history loses at most timestamps
\* older than the window, and the number of timestamps an admission check
\* would count stays what it was.  After an admission check or get_stats, no
\* timestamp of a history it read is older than the window.
C38_ReadsConsumeNothing ==
    [][/\ (usage' = usage /\ now' = now) =>
             \A p \in Providers :
                /\ OnlyEvicted(History(p), History(p)', now)
                /\ Len(CleanHistory(History(p)', now)) = Len(CleanHistory(History(p), now))
       /\ (\/ ret'.op = "can_use" /\ CanUseCall(ret'.p)
           \/ ret'.op = "get_stats" /\ LimiterGetStats) =>
             /\ usage' = usage /\ now' = now
             /\ \A p \in Providers :
                   (ret'.op = "get_stats" \/ ret'.p = p) =>
                      \A i \in 1..Len(History(p)') : now - History(p)'[i] <= WindowSeconds
                                                       /\ History(p)'[i] <= now]_vars

\* C38 witness: an admission check of groq was granted after more usages
\* than its limit had left the window; it evicted them all, and left in
\* gemini's history, which it does not read, a timestamp older than the
\* window.
C38_Witness ==
    /\ ret.op = "can_use" /\ ret.p = "groq" /\ ret.value = TRUE
    /\ Len(usage["groq"]) > GroqLimit
    /\ groq_history = <<>>
    /\ gemini_history # <<>>
    /\ now - gemini_history[1] > WindowSeconds

\* --------------------------------- claims on two submissions of one URL
\* (checked under SpecRefresh)

\* The jobs completed by the step.
Completing == {j \in AllJobIds : job[j].status # "completed" /\ job'[j].status = "completed"}

\* C39: a submission that finds nothing in the cache creates a job under an
\* id no job has had, queued, with a pipeline of its own, whether or not
\* another job is at work on the same URL, and leaves every other job as it
\* is.  A step that changes a job or moves its pipeline leaves every other
\* job and pipeline as they are.  The step that completes a job writes that
\* job's result to both tiers; no other step changes the payload of an
\* entry, so that the entry stored is that of the job completed last.  The id
\* "cache" is the id of no record of the store.
C39_NoCoalescing ==
    [][/\ CacheJobId \notin jobs' /\ CacheJobId \notin AllJobIds
       /\ (/\ ret'.op = "submit"
           /\ UNCHANGED <<now, running>>
           /\ CacheGet(ret'.url, NoFaults) = Null
           /\ SubmitAnalysisIn(AllJobIds, ret'.url, FALSE, NoFaults))
          => /\ ret'.job_id # CacheJobId
             /\ ret'.job_id \in AllJobIds \ jobs
             /\ pc[ret'.job_id] = "idle" /\ pc'[ret'.job_id] = "created"
             /\ ret'.job_id \in jobs' /\ job'[ret'.job_id] = NewJobStatus
             /\ url'[ret'.job_id] = ret'.url
             /\ jobs \subseteq jobs'
       /\ \A j \in AllJobIds :
             (job'[j] # job[j] \/ pc'[j] # pc[j]) =>
                \A other \in AllJobIds \ {j} :
                    /\ job'[other] = job[other] /\ pc'[other] = pc[other]
                    /\ (other \in jobs') = (other \in jobs)
       /\ \A j \in Completing :
             /\ hot'[HashUrl(url[j])].value = JsonDumps(job'[j].result[1], FALSE)
             /\ cold'[HashUrl(url[j])].analysis = JsonDumps(job'[j].result[1], FALSE)
             /\ CacheGet(url[j], NoFaults)' = job'[j].result
       /\ Completing = {} =>
             /\ DOMAIN cold' = DOMAIN cold
             /\ \A key \in DOMAIN cold : cold'[key].analysis = cold[key].analysis
             /\ \A key \in DOMAIN hot' :
                   /\ key \in DOMAIN cold
                   /\ JsonLoadsAnalysis(hot'[key].value) = JsonLoadsAnalysis(cold[key].analysis)]_vars

\* C39 witness: the cache is empty and two jobs of the same URL are at work,
\* the second ahead of the first.
C39_Witness ==
    /\ hot = <<>> /\ cold = <<>>
    /\ jobs = {1, 2} /\ url[1] = url[2]
    /\ pc[1] = "extracting" /\ job[1].progress = 10
    /\ pc[2] = "enriching" /\ job[2].progress = 70

====
